---------------------------- MODULE Spec2Model ----------------------------
(***************************************************************************)
(* Model of the SAR MCP bridge (mcp/server.mjs): six registered tools      *)
(* that forward one HTTP request each to the remote API and wrap the JSON  *)
(* answer in a {content, structuredContent} envelope.                      *)
(*                                                                         *)
(* Strings are sequences of tokens.  A token is either one of the special  *)
(* characters "/", ".", "?", "#", ":" or a word without special            *)
(* characters.  Strings whose length matters are written with              *)
(* one-character words, so Len is the string's length.                     *)
(*                                                                         *)
(* JavaScript values (tool arguments, parsed payloads) are records         *)
(* [k, v, f]: k the kind, v the scalar as a string of tokens, f the        *)
(* members of an object or array as a sequence of [name, val].             *)
(* JSON texts are records [indent, syn] where syn is the syntax tree of    *)
(* the text with its literals, or a "garbage" node when the text is not    *)
(* JSON.                                                                   *)
(***************************************************************************)
EXTENDS Integers, Sequences, FiniteSets, TLC

\* Number of tools/call requests one bridge process receives.
MaxCalls == 2

Calls == 1..MaxCalls

----------------------------------------------------------------------------
(* JavaScript values *)

JNull == [k |-> "null", v |-> <<>>, f |-> <<>>]

JNum(n) == [k |-> "num", v |-> <<n>>, f |-> <<>>]

JStr(s) == [k |-> "str", v |-> s, f |-> <<>>]

JObj(fields) == [k |-> "obj", v |-> <<>>, f |-> fields]

JArr(items) == [k |-> "arr", v |-> <<>>, f |-> items]

Fld(n, x) == [name |-> n, val |-> x]

Has(o, n) == \E i \in 1..Len(o.f) : o.f[i].name = n

Get(o, n) == o.f[CHOOSE i \in 1..Len(o.f) : o.f[i].name = n].val

\* The value a number literal outside the double range parses to.
Infinity == "Infinity"

----------------------------------------------------------------------------
(* JSON.stringify and JSON.parse *)

Lit(kind, text) == [k |-> kind, v |-> text, f |-> <<>>]

Garbage(text) == [k |-> "garbage", v |-> text, f |-> <<>>]

RECURSIVE StringifySyn(_)
StringifySyn(x) ==
    CASE x.k = "null" -> Lit("null", <<"null">>)
      [] x.k = "bool" -> Lit("bool", x.v)
      [] x.k = "num"  -> IF x.v = <<Infinity>>
                           THEN Lit("null", <<"null">>)
                           ELSE Lit("number", x.v)
      [] x.k = "str"  -> Lit("string", x.v)
      [] OTHER        -> [k |-> IF x.k = "obj" THEN "object" ELSE "array",
                          v |-> <<>>,
                          f |-> [i \in 1..Len(x.f) |->
                                   Fld(x.f[i].name, StringifySyn(x.f[i].val))]]

\* JSON.stringify(value, null, indent)
JSONStringify(x, indent) == [indent |-> indent, syn |-> StringifySyn(x)]

RECURSIVE IsJsonSyn(_)
IsJsonSyn(s) ==
    /\ s.k # "garbage"
    /\ \A i \in 1..Len(s.f) : IsJsonSyn(s.f[i].val)

\* Number literals too large for a double.
OverflowLiterals == {"1e400"}

RECURSIVE ParseSyn(_)
ParseSyn(s) ==
    CASE s.k = "null"   -> JNull
      [] s.k = "bool"   -> [k |-> "bool", v |-> s.v, f |-> <<>>]
      [] s.k = "number" -> IF s.v[1] \in OverflowLiterals
                             THEN JNum(Infinity)
                             ELSE [k |-> "num", v |-> s.v, f |-> <<>>]
      [] s.k = "string" -> JStr(s.v)
      [] OTHER          -> [k |-> IF s.k = "object" THEN "obj" ELSE "arr",
                            v |-> <<>>,
                            f |-> [i \in 1..Len(s.f) |->
                                     Fld(s.f[i].name, ParseSyn(s.f[i].val))]]

\* Mutant: a parse failure is swallowed and read as null.
JSONParseLenient(t) ==
    [ok |-> TRUE, value |-> IF IsJsonSyn(t.syn) THEN ParseSyn(t.syn) ELSE JNull]

\* JSON.parse(text): [ok, value]; ok is FALSE when it throws SyntaxError.
JSONParse(t) ==
    IF IsJsonSyn(t.syn)
      THEN [ok |-> TRUE, value |-> ParseSyn(t.syn)]
      ELSE [ok |-> FALSE, value |-> JNull]

----------------------------------------------------------------------------
(* Input schemas (zod) *)

IsNumber(x) == x.k = "num"

IsString(x) == x.k = "str"

UrlSchemes == {"https", "http"}

\* z.string().url(): the string parses as an absolute URL.
IsUrl(s) == Len(s) >= 3 /\ s[1] \in UrlSchemes /\ s[2] = ":"

TextMinLength == 3

EventIdMinLength == 1

\* One key of a schema: required, optional or with a default.
Key(n, chk, mode, dflt) == [name |-> n, chk |-> chk, mode |-> mode, dflt |-> dflt]

ingestEventArgs ==
    << Key("text", "text", "required", JNull),
       Key("lat", "number", "optional", JNull),
       Key("lon", "number", "optional", JNull),
       Key("mediaUrl", "url", "optional", JNull) >>

explainEventArgs == << Key("eventId", "eventId", "required", JNull) >>

altRouteArgs ==
    << Key("originLat", "number", "default", JNum("3.043")),
       Key("originLon", "number", "default", JNum("101.449")),
       Key("destLat", "number", "default", JNum("3.155")),
       Key("destLon", "number", "default", JNum("101.712")) >>

geofenceArgs ==
    << Key("lat", "number", "default", JNum("3.043")),
       Key("lon", "number", "default", JNum("101.449")),
       Key("radiusKm", "number", "default", JNum("1")) >>

\* Mutant: the length test of text is off by one.
CheckOffByOne(chk, x) ==
    CASE chk = "text"    -> IsString(x) /\ Len(x.v) >= TextMinLength - 1
      [] chk = "eventId" -> IsString(x) /\ Len(x.v) >= EventIdMinLength
      [] chk = "url"     -> IsString(x) /\ IsUrl(x.v)
      [] chk = "number"  -> IsNumber(x)

Check(chk, x) ==
    CASE chk = "text"    -> IsString(x) /\ Len(x.v) >= TextMinLength
      [] chk = "eventId" -> IsString(x) /\ Len(x.v) >= EventIdMinLength
      [] chk = "url"     -> IsString(x) /\ IsUrl(x.v)
      [] chk = "number"  -> IsNumber(x)

KeyOk(key, args) ==
    IF Has(args, key.name)
      THEN Check(key.chk, Get(args, key.name))
      ELSE key.mode # "required"

\* Mutant: a default is not filled in.
KeyPresentIfSupplied(key, args) == Has(args, key.name)

\* The keys of the parsed object: the schema's keys, in schema order, that
\* the arguments hold or that have a default; other keys are stripped.
KeyPresent(key, args) == Has(args, key.name) \/ key.mode = "default"

KeyValue(key, args) ==
    IF Has(args, key.name) THEN Get(args, key.name) ELSE key.dflt

RECURSIVE ParsedFields(_, _)
ParsedFields(shape, args) ==
    IF shape = <<>> THEN <<>>
    ELSE (IF KeyPresent(Head(shape), args)
            THEN << Fld(Head(shape).name, KeyValue(Head(shape), args)) >>
            ELSE <<>>) \o ParsedFields(Tail(shape), args)

\* safeParse of the arguments against a schema: [success, data].
SafeParse(shape, args) ==
    IF args.k = "obj" /\ \A i \in 1..Len(shape) : KeyOk(shape[i], args)
      THEN [success |-> TRUE, data |-> JObj(ParsedFields(shape, args))]
      ELSE [success |-> FALSE, data |-> JNull]

----------------------------------------------------------------------------
(* URLs *)

\* API_BASE as read from the environment: unset, or the origin and the path.
NoApiBase == [set |-> FALSE, origin |-> "", path |-> <<>>]

ApiBase(origin, path) == [set |-> TRUE, origin |-> origin, path |-> path]

\* Mutant: only an unset API_BASE counts as missing.
FalsyUnsetOnly(b) == ~b.set

\* !API_BASE
Falsy(b) == ~b.set \/ (b.origin = "" /\ b.path = <<>>)

EndsWithSlash(s) == s # <<>> /\ s[Len(s)] = "/"

StartsWithSlash(s) == s # <<>> /\ s[1] = "/"

\* Mutant: the base is used as it is given.
BaseUrlAsGiven(b) == b

BASE_URL(b) == IF EndsWithSlash(b.path) THEN b ELSE [b EXCEPT !.path = @ \o <<"/">>]

toRelativePath(path) == IF StartsWithSlash(path) THEN Tail(path) ELSE path

EncodeToken(c) ==
    CASE c = "/" -> "%2F"
      [] c = "?" -> "%3F"
      [] c = "#" -> "%23"
      [] c = ":" -> "%3A"
      [] OTHER   -> c

encodeURIComponent(s) == [i \in 1..Len(s) |-> EncodeToken(s[i])]

\* The segments of a path: the strings between its "/".
RECURSIVE Split(_)
Split(s) ==
    IF s = <<>> THEN << <<>> >>
    ELSE LET r == Split(Tail(s))
         IN  IF Head(s) = "/"
               THEN << <<>> >> \o r
               ELSE << <<Head(s)>> \o Head(r) >> \o Tail(r)

\* The part of a relative reference before its query or fragment.
RECURSIVE PathPart(_)
PathPart(s) ==
    IF s = <<>> \/ Head(s) \in {"?", "#"} THEN <<>>
    ELSE <<Head(s)>> \o PathPart(Tail(s))

\* The query of a relative reference: from its first "?" up to a "#".
RECURSIVE BeforeHash(_)
BeforeHash(s) ==
    IF s = <<>> \/ Head(s) = "#" THEN <<>>
    ELSE <<Head(s)>> \o BeforeHash(Tail(s))

RECURSIVE QueryPart(_)
QueryPart(s) ==
    IF s = <<>> \/ Head(s) = "#" THEN <<>>
    ELSE IF Head(s) = "?" THEN BeforeHash(s)
    ELSE QueryPart(Tail(s))

DropLast(q) == IF q = <<>> THEN q ELSE SubSeq(q, 1, Len(q) - 1)

\* Dot segments are removed as the URL parser meets them.
RECURSIVE RemoveDots(_, _)
RemoveDots(acc, segs) ==
    IF segs = <<>> THEN acc
    ELSE LET s == Head(segs)
             last == IF Len(segs) = 1 THEN << <<>> >> ELSE <<>>
         IN  CASE s = <<".">>      -> RemoveDots(acc \o last, Tail(segs))
               [] s = <<".", ".">> -> RemoveDots(DropLast(acc) \o last, Tail(segs))
               [] OTHER            -> RemoveDots(acc \o <<s>>, Tail(segs))

\* new URL(relative, base): the origin of the base, the resolved path as the
\* sequence of its segments, and the query.
NewURL(relative, base) ==
    LET rel == PathPart(relative)
        baseDir == DropLast(Tail(Split(base.path)))
    IN  [origin |-> base.origin,
         pathname |-> IF StartsWithSlash(rel)
                        THEN RemoveDots(<<>>, Tail(Split(rel)))
                        ELSE IF rel = <<>>
                               THEN Tail(Split(base.path))
                               ELSE RemoveDots(baseDir, Split(rel)),
         search |-> QueryPart(relative)]

----------------------------------------------------------------------------
(* httpJson and jsonToolResult *)

NoText == [indent |-> 0, syn |-> Garbage(<<>>)]

Undefined == [def |-> FALSE, val |-> JNull]

Defined(x) == [def |-> TRUE, val |-> x]

\* Mutant: the content-type header is sent with every request.
FetchRequestAlwaysJson(path, method, body, base) ==
    [method |-> IF method = "" THEN "GET" ELSE method,
     url |-> NewURL(toRelativePath(path), BASE_URL(base)),
     contentType |-> "application/json",
     body |-> IF body.def THEN JSONStringify(body.val, 0) ELSE NoText,
     hasBody |-> body.def]

\* The fetch() call httpJson makes for (path, {method, body}).
FetchRequest(path, method, body, base) ==
    [method |-> IF method = "" THEN "GET" ELSE method,
     url |-> NewURL(toRelativePath(path), BASE_URL(base)),
     contentType |-> IF body.def THEN "application/json" ELSE "",
     body |-> IF body.def THEN JSONStringify(body.val, 0) ELSE NoText,
     hasBody |-> body.def]

\* Mutant: only server errors count as failures.
ResponseOkBelow500(status) == status < 500

ResponseOk(status) == 200 <= status /\ status <= 299

StatusText(status) ==
    CASE status = 200 -> "OK"
      [] status = 404 -> "Not Found"
      [] OTHER        -> ""

\* new Error(`Request to ${url.pathname} failed: ${status} ${statusText}\n${text}`)
RequestFailed(url, status, text) ==
    [name |-> "Error",
     parts |-> {"pathname", "status", "statusText", "text"},
     pathname |-> url.pathname,
     status |-> status,
     statusText |-> StatusText(status),
     text |-> text]

\* An error raised by the runtime: its message holds nothing of the request.
RuntimeError(name) ==
    [name |-> name, parts |-> {}, pathname |-> <<>>, status |-> 0,
     statusText |-> "", text |-> NoText]

jsonToolResult(payload) ==
    [content |-> << [type |-> "text", text |-> JSONStringify(payload, 2)] >>,
     structuredContent |-> payload]

----------------------------------------------------------------------------
(* The registered tools *)

\* Mutant: simulate_replay is not registered.
RegistrationsWithoutReplay ==
    << "ingest_event", "list_events", "explain_event", "alt_route",
       "set_geofence_alert" >>

\* The registerTool calls made while the module loads, in order.
Registrations ==
    << "ingest_event", "list_events", "explain_event", "alt_route",
       "set_geofence_alert", "simulate_replay" >>

RegisteredTools ==
    {"ingest_event", "list_events", "explain_event", "alt_route",
     "set_geofence_alert", "simulate_replay"}

HasInputSchema(name) ==
    name \in {"ingest_event", "explain_event", "alt_route", "set_geofence_alert"}

InputSchema(name) ==
    CASE name = "ingest_event"       -> ingestEventArgs
      [] name = "explain_event"      -> explainEventArgs
      [] name = "alt_route"          -> altRouteArgs
      [] name = "set_geofence_alert" -> geofenceArgs

\* The httpJson call of each tool's handler: [path, method, body].
HttpCall(path, method, body) == [path |-> path, method |-> method, body |-> body]

Handler(name, input) ==
    CASE name = "ingest_event" ->
           HttpCall(<<"/", "ingest">>, "POST", Defined(input))
      [] name = "list_events" ->
           HttpCall(<<"/", "events">>, "", Undefined)
      [] name = "explain_event" ->
           HttpCall(<<"/", "events", "/">>
                      \o encodeURIComponent(Get(input, "eventId").v)
                      \o <<"/", "explain">>, "", Undefined)
      [] name = "alt_route" ->
           HttpCall(<<"/", "routes", "/", "alt">>, "POST", Defined(input))
      [] name = "set_geofence_alert" ->
           HttpCall(<<"/", "alerts", "/", "geofence">>, "POST", Defined(input))
      [] name = "simulate_replay" ->
           HttpCall(<<"/", "simulate", "/", "replay">>, "POST", Defined(JObj(<<>>)))

\* Mutant: the lookup of the name is skipped, an unknown name is reported as
\* invalid arguments.
DispatchNoLookup(name, args) ==
    IF name \in RegisteredTools /\ ~HasInputSchema(name)
      THEN [to |-> "run", input |-> JNull]
    ELSE LET p == IF name \in RegisteredTools
                    THEN SafeParse(InputSchema(name), args)
                    ELSE [success |-> FALSE, data |-> JNull]
         IN  IF p.success THEN [to |-> "run", input |-> p.data]
                          ELSE [to |-> "invalid", input |-> JNull]

\* What the server does with a tools/call request before any handler runs:
\* "unknown" for a name that is not registered, "invalid" for arguments the
\* tool's input schema rejects, else "run" with the handler's input.
Dispatch(name, args) ==
    IF name \notin RegisteredTools
      THEN [to |-> "unknown", input |-> JNull]
    ELSE IF ~HasInputSchema(name)
      THEN [to |-> "run", input |-> JNull]
    ELSE LET p == SafeParse(InputSchema(name), args)
         IN  IF p.success THEN [to |-> "run", input |-> p.data]
                          ELSE [to |-> "invalid", input |-> JNull]

----------------------------------------------------------------------------
(* Inputs: the environment, the requests of the caller, the remote answers *)

Origin == "https://api.example"

ApiBases ==
    { NoApiBase,
      ApiBase("", <<>>),
      ApiBase(Origin, <<"/", "prod">>),
      ApiBase(Origin, <<"/", "prod", "/">>) }

Args(fields) == JObj(fields)

Text2 == JStr(<<"S", "O">>)

Text3 == JStr(<<"S", "O", "S">>)

MediaUrl == JStr(<<"https", ":", "/", "/", "cdn", "/", "a", ".", "jpg">>)

EventIds == { <<"e1">>, <<".", ".">>, <<"a", "/", "b">> }

Request(name, args) == [name |-> name, arguments |-> args]

Requests ==
    { Request("ingest_event", Args(<< Fld("text", Text3), Fld("lat", JNum("3.033")),
                                      Fld("mediaUrl", MediaUrl) >>)),
      Request("ingest_event", Args(<< Fld("text", Text2) >>)),
      Request("ingest_event", Args(<< Fld("text", Text3),
                                      Fld("mediaUrl", JStr(<<"a", ".", "jpg">>)) >>)),
      Request("list_events", Args(<<>>)),
      Request("explain_event", Args(<< Fld("eventId", JStr(<<>>)) >>)),
      Request("alt_route", Args(<< Fld("originLat", JNum("3.135")) >>)),
      Request("set_geofence_alert", Args(<< Fld("lat", JNum("3.13")), Fld("lon", JNum("101.65")),
                                            Fld("radiusKm", JNum("2")) >>)),
      Request("set_geofence_alert", Args(<< Fld("radiusKm", JStr(<<"2">>)) >>)),
      Request("simulate_replay", Args(<<>>)),
      Request("delete_event", Args(<< Fld("eventId", JStr(<<"e1">>)) >>)) }
    \cup { Request("explain_event", Args(<< Fld("eventId", JStr(id)) >>)) : id \in EventIds }

Statuses == {200, 404}

Body(syn) == [indent |-> 0, syn |-> syn]

Member(n, syn) == [name |-> n, val |-> syn]

Bodies ==
    { Body([k |-> "object", v |-> <<>>,
            f |-> << Member("distanceKm", Lit("number", <<"4.2">>)),
                     Member("polyline", Lit("string", <<"_p~iF">>)) >>]),
      Body([k |-> "object", v |-> <<>>,
            f |-> << Member("distanceKm", Lit("number", <<"1e400">>)) >>]),
      Body(Garbage(<<"<html>">>)) }

----------------------------------------------------------------------------
(* State *)

VARIABLES
    apiBase,    \* API_BASE
    proc,       \* "ready" once the server is connected, "exited" after exit(1)
    pc,         \* per call: "idle", "fetch" while awaiting the response, "done"
    call,       \* per call: the tools/call request received
    sent,       \* per call: the fetch requests issued, in order
    resp,       \* per call: the status of the response received
    read,       \* per call: the response body read
    out,        \* per call: what was written back to the caller, in order
    registry,   \* the names of the tools registered on the server, in order
    listed,     \* the tool names of the last capability listing, <<>> if none
    points,     \* the coordinate pairs the string was encoded from, in 1e-5 degree
    value,      \* decodeGooglePolyline: the string to decode, as char codes
    index,      \* decodeGooglePolyline: index
    lat,        \* decodeGooglePolyline: lat
    lon,        \* decodeGooglePolyline: lon
    coordinates, \* decodeGooglePolyline: coordinates, in units of 1e-5
    ppc,        \* decodeGooglePolyline: "off", "call", "loop" or "returned"
    web,        \* the dashboard's API client, the proxy routes and the backend
    page,       \* the state of the dashboard page and of its panels
    fn          \* a helper function of the dashboard, its argument and result

decoder == <<points, value, index, lat, lon, coordinates, ppc>>

site == <<web, page, fn>>

vars == <<apiBase, proc, pc, call, sent, resp, read, out, registry, listed, decoder, site>>

\* No call of decodeGooglePolyline is made.
DecoderOff ==
    /\ points = <<>>
    /\ value = <<>>
    /\ index = 0
    /\ lat = 0
    /\ lon = 0
    /\ coordinates = <<>>
    /\ ppc = "off"

\* The web application is not running.
SiteOff ==
    /\ web = [wpc |-> "off"]
    /\ page = [on |-> FALSE]
    /\ fn = [name |-> ""]

NoRequest == Request("", JNull)

Init ==
    /\ apiBase \in ApiBases
    /\ proc = IF Falsy(apiBase) THEN "exited" ELSE "ready"
    /\ pc = [i \in Calls |-> "idle"]
    /\ call = [i \in Calls |-> NoRequest]
    /\ sent = [i \in Calls |-> <<>>]
    /\ resp = [i \in Calls |-> 0]
    /\ read = [i \in Calls |-> NoText]
    /\ out = [i \in Calls |-> <<>>]
    /\ registry = IF Falsy(apiBase) THEN <<>> ELSE Registrations
    /\ listed = <<>>
    /\ DecoderOff
    /\ SiteOff

\* What is written back to the caller.
Success(result) ==
    [kind |-> "success", code |-> "", result |-> result, error |-> RuntimeError("")]

Failure(code, error) ==
    [kind |-> "error", code |-> code, result |-> jsonToolResult(JNull), error |-> error]

\* A tools/call request arrives.  An unknown name or invalid arguments are
\* answered at once; otherwise the handler runs up to the await of fetch().
ToolsCall(i, rq) ==
    /\ proc = "ready"
    /\ pc[i] = "idle"
    /\ \A j \in Calls : j < i => pc[j] # "idle"
    /\ call' = [call EXCEPT ![i] = rq]
    /\ LET d == Dispatch(rq.name, rq.arguments)
       IN  IF d.to = "run"
             THEN LET h == Handler(rq.name, d.input)
                  IN  /\ sent' = [sent EXCEPT ![i] =
                                    Append(@, FetchRequest(h.path, h.method, h.body, apiBase))]
                      /\ pc' = [pc EXCEPT ![i] = "fetch"]
                      /\ out' = out
             ELSE /\ out' = [out EXCEPT ![i] =
                               Append(@, Failure(IF d.to = "unknown" THEN "unknown_tool"
                                                                      ELSE "validation",
                                                 RuntimeError("McpError")))]
                  /\ pc' = [pc EXCEPT ![i] = "done"]
                  /\ sent' = sent
    /\ UNCHANGED <<site, registry, listed, decoder, apiBase, proc, resp, read>>

\* Mutant: a failed fetch is retried.
FetchRejectsRetry(i) ==
    /\ pc[i] = "fetch"
    /\ Len(sent[i]) < 3
    /\ sent' = [sent EXCEPT ![i] = Append(@, @[1])]
    /\ UNCHANGED <<site, registry, listed, decoder, apiBase, proc, pc, call, resp, read, out>>

\* Mutant: a connection failure fails every pending call.
FetchRejectsAll(i) ==
    /\ pc[i] = "fetch"
    /\ out' = [j \in Calls |->
                 IF pc[j] = "fetch"
                   THEN Append(out[j], Failure("tool", RuntimeError("TypeError")))
                   ELSE out[j]]
    /\ pc' = [j \in Calls |-> IF pc[j] = "fetch" THEN "done" ELSE pc[j]]
    /\ UNCHANGED <<site, registry, listed, decoder, apiBase, proc, call, sent, resp, read>>

\* Mutant: the rejection is swallowed, nothing is written back.
FetchRejectsSwallowed(i) ==
    /\ pc[i] = "fetch"
    /\ pc' = [pc EXCEPT ![i] = "done"]
    /\ UNCHANGED <<site, registry, listed, decoder, apiBase, proc, call, sent, resp, read, out>>

\* fetch() rejects: DNS, connection or timeout failure.  httpJson does not
\* catch it, the handler fails with the runtime's error.
FetchRejects(i) ==
    /\ pc[i] = "fetch"
    /\ out' = [out EXCEPT ![i] = Append(@, Failure("tool", RuntimeError("TypeError")))]
    /\ pc' = [pc EXCEPT ![i] = "done"]
    /\ UNCHANGED <<site, registry, listed, decoder, apiBase, proc, call, sent, resp, read>>

\* Mutant: the error is reported but not thrown, the body is then parsed and
\* returned as well.
ResponseNotOkNoThrow(i, status, body) ==
    /\ pc[i] = "fetch"
    /\ ~ResponseOk(status)
    /\ resp' = [resp EXCEPT ![i] = status]
    /\ read' = [read EXCEPT ![i] = body]
    /\ out' = [out EXCEPT ![i] =
                 Append(Append(@, Failure("tool", RequestFailed(sent[i][Len(sent[i])].url,
                                                                status, body))),
                        IF JSONParse(body).ok
                          THEN Success(jsonToolResult(JSONParse(body).value))
                          ELSE Failure("tool", RuntimeError("SyntaxError")))]
    /\ pc' = [pc EXCEPT ![i] = "done"]
    /\ UNCHANGED <<site, registry, listed, decoder, apiBase, proc, call, sent>>

\* fetch() resolves with a response that is not ok: the body is read as
\* text and thrown with path and status.  The awaits of fetch() and of
\* response.text() are one step: no other code runs on this call between.
ResponseNotOk(i, status, body) ==
    /\ pc[i] = "fetch"
    /\ ~ResponseOk(status)
    /\ resp' = [resp EXCEPT ![i] = status]
    /\ read' = [read EXCEPT ![i] = body]
    /\ out' = [out EXCEPT ![i] =
                 Append(@, Failure("tool", RequestFailed(sent[i][Len(sent[i])].url,
                                                         status, body)))]
    /\ pc' = [pc EXCEPT ![i] = "done"]
    /\ UNCHANGED <<site, registry, listed, decoder, apiBase, proc, call, sent>>

\* fetch() resolves with an ok response: the body is parsed as JSON and
\* wrapped, or the parse throws.
ResponseIsOk(i, status, body) ==
    /\ pc[i] = "fetch"
    /\ ResponseOk(status)
    /\ resp' = [resp EXCEPT ![i] = status]
    /\ read' = [read EXCEPT ![i] = body]
    /\ LET p == JSONParse(body)
       IN  out' = [out EXCEPT ![i] =
                     Append(@, IF p.ok THEN Success(jsonToolResult(p.value))
                                       ELSE Failure("tool", RuntimeError("SyntaxError")))]
    /\ pc' = [pc EXCEPT ![i] = "done"]
    /\ UNCHANGED <<site, registry, listed, decoder, apiBase, proc, call, sent>>

Next ==
    \/ \E i \in Calls, rq \in Requests : ToolsCall(i, rq)
    \/ \E i \in Calls : FetchRejects(i)
    \/ \E i \in Calls, status \in Statuses, body \in Bodies : ResponseNotOk(i, status, body)
    \/ \E i \in Calls, status \in Statuses, body \in Bodies : ResponseIsOk(i, status, body)

Spec == Init /\ [][Next]_vars

TypeOK ==
    /\ proc \in {"ready", "exited"}
    /\ \A i \in Calls : pc[i] \in {"idle", "fetch", "done"}

----------------------------------------------------------------------------
(* One call at a time, over more base URLs and more arguments *)

RouteBases ==
    { ApiBase(Origin, <<>>),
      ApiBase(Origin, <<"/">>),
      ApiBase(Origin, <<"/", "prod">>),
      ApiBase(Origin, <<"/", "prod", "/">>),
      ApiBase(Origin, <<"/", "prod", "/", "v1">>),
      ApiBase(Origin, <<"/", "prod", "/", "v1", "/">>) }

RouteEventIds ==
    { <<"e1">>, <<"e", ".", "1">>, <<".">>, <<".", ".">>, <<".", ".", ".">>,
      <<"a", "/", "b">>, <<".", ".", "/", ".", ".">>, <<"a", "?", "b">>,
      <<"a", "#", "b">>, <<"?">>, <<"#">> }

\* The arguments that hold the keys of names only, in the order of fields.
Supplied(fields, names) ==
    SelectSeq(fields, LAMBDA fd : fd.name \in names)

AltRouteSupplied ==
    << Fld("originLat", JNum("3.135")), Fld("originLon", JNum("101.5")),
       Fld("destLat", JNum("0")), Fld("destLon", JNum("-101.712")) >>

GeofenceSupplied ==
    << Fld("lat", JNum("3.13")), Fld("lon", JNum("101.65")),
       Fld("radiusKm", JNum("0")) >>

FieldNames(fields) == { fields[i].name : i \in 1..Len(fields) }

RouteRequests ==
    { Request("ingest_event", Args(<< Fld("text", Text3), Fld("lat", JNum("3.033")),
                                      Fld("mediaUrl", MediaUrl) >>)),
      Request("ingest_event", Args(<< Fld("text", Text3), Fld("note", Text2) >>)),
      Request("list_events", Args(<<>>)),
      Request("simulate_replay", Args(<<>>)),
      Request("simulate_replay", Args(<< Fld("speed", JNum("2")) >>)) }
    \cup { Request("explain_event", Args(<< Fld("eventId", JStr(id)) >>)) :
             id \in RouteEventIds }
    \cup { Request("alt_route", Args(Supplied(AltRouteSupplied, names))) :
             names \in SUBSET FieldNames(AltRouteSupplied) }
    \cup { Request("set_geofence_alert", Args(Supplied(GeofenceSupplied, names))) :
             names \in SUBSET FieldNames(GeofenceSupplied) }

InitRoutes ==
    /\ apiBase \in RouteBases
    /\ proc = IF Falsy(apiBase) THEN "exited" ELSE "ready"
    /\ pc = [i \in Calls |-> "idle"]
    /\ call = [i \in Calls |-> NoRequest]
    /\ sent = [i \in Calls |-> <<>>]
    /\ resp = [i \in Calls |-> 0]
    /\ read = [i \in Calls |-> NoText]
    /\ out = [i \in Calls |-> <<>>]
    /\ registry = IF Falsy(apiBase) THEN <<>> ELSE Registrations
    /\ listed = <<>>
    /\ DecoderOff
    /\ SiteOff

NextRoutes ==
    \/ \E rq \in RouteRequests : ToolsCall(1, rq)
    \/ FetchRejects(1)
    \/ \E status \in Statuses, body \in Bodies : ResponseNotOk(1, status, body)
    \/ \E status \in Statuses, body \in Bodies : ResponseIsOk(1, status, body)

SpecRoutes == InitRoutes /\ [][NextRoutes]_vars

----------------------------------------------------------------------------
(* Calls and capability listings, over a few requests *)

\* A tools/list request: the names of the registered tools are returned.
ToolsList ==
    /\ proc = "ready"
    /\ listed' = registry
    /\ UNCHANGED <<site, apiBase, proc, pc, call, sent, resp, read, out, registry, decoder>>

FewRequests ==
    { Request("list_events", Args(<<>>)),
      Request("simulate_replay", Args(<<>>)),
      Request("ingest_event", Args(<< Fld("text", Text2) >>)),
      Request("delete_event", Args(<< Fld("eventId", JStr(<<"e1">>)) >>)) }

\* The remote service answers call i, or the connection fails.
RemoteAnswers(i) ==
    \/ FetchRejects(i)
    \/ \E status \in Statuses, body \in Bodies : ResponseNotOk(i, status, body)
    \/ \E status \in Statuses, body \in Bodies : ResponseIsOk(i, status, body)

NextList ==
    \/ ToolsList
    \/ \E i \in Calls, rq \in FewRequests : ToolsCall(i, rq)
    \/ \E i \in Calls : RemoteAnswers(i)

SpecList == Init /\ [][NextList]_vars

\* The remote service always eventually answers, or the connection fails.
SpecLive == SpecList /\ \A i \in Calls : WF_vars(RemoteAnswers(i))

----------------------------------------------------------------------------
(* The polyline decoder *)

\* A JavaScript number that may be NaN.
NaN == [nan |-> TRUE, n |-> 0]

Num(n) == [nan |-> FALSE, n |-> n]

\* Mutant: reading past the end of the string gives its last character.
charCodeAtClamped(str, i) == IF i < Len(str) THEN Num(str[i + 1]) ELSE Num(str[Len(str)])

\* str.charCodeAt(i), i counted from 0: NaN past the end of the string.
charCodeAt(str, i) == IF i < Len(str) THEN Num(str[i + 1]) ELSE NaN

Minus(x, k) == IF x.nan THEN NaN ELSE Num(x.n - k)

AtLeast(x, k) == ~x.nan /\ x.n >= k

\* ToInt32, applied to the operands of the bitwise operators: NaN is 0.
ToInt32(x) == IF x.nan THEN 0 ELSE x.n

\* Bit k of a 32-bit integer in two's complement.
Bit(a, k) == IF k = 31 THEN (IF a < 0 THEN 1 ELSE 0) ELSE ((a \div (2^k)) % 2)

RECURSIVE LowBits(_, _)
LowBits(b, k) == IF k > 30 THEN 0 ELSE (b[k] * (2^k)) + LowBits(b, k + 1)

Int32FromBits(b) ==
    IF b[31] = 1 THEN (LowBits(b, 0) - (2^30)) - (2^30) ELSE LowBits(b, 0)

\* a | b, each operand evaluated once.
BitOr(a, b) ==
    CHOOSE r \in { Int32FromBits([k \in 0..31 |-> IF Bit(x, k) = 1 \/ Bit(y, k) = 1 THEN 1 ELSE 0])
                   : <<x, y>> \in {<<a, b>>} } : TRUE

\* a & b
BitAnd(a, b) ==
    CHOOSE r \in { Int32FromBits([k \in 0..31 |-> IF Bit(x, k) = 1 /\ Bit(y, k) = 1 THEN 1 ELSE 0])
                   : <<x, y>> \in {<<a, b>>} } : TRUE

\* Mutant: the shift count is taken modulo 16.
ShiftLeftMod16(a, s) ==
    CHOOSE r \in { Int32FromBits([k \in 0..31 |-> IF k >= n THEN Bit(x, k - n) ELSE 0])
                   : <<x, n>> \in {<<a, s % 16>>} } : TRUE

\* a << s: the shift count is taken modulo 32, the bits shifted out are lost.
ShiftLeft(a, s) ==
    CHOOSE r \in { Int32FromBits([k \in 0..31 |-> IF k >= n THEN Bit(x, k - n) ELSE 0])
                   : <<x, n>> \in {<<a, s % 32>>} } : TRUE

\* a >> 1, sign-propagating.
ShiftRightOne(a) == a \div 2

\* ~a
BitNot(a) == -a - 1

\* Mutant: the continuation bit is not looked at, a chunk is one character.
DoWhileOnce(str, i, result, shift) ==
    [result |-> BitAnd(ToInt32(Minus(charCodeAt(str, i), 63)), 31), index |-> i + 1]

\* The do-while loop of decodeChunk from index i on: [result, index].
RECURSIVE DoWhile(_, _, _, _)
DoWhile(str, i, result, shift) ==
    CHOOSE d \in
        { LET r == BitOr(result, ShiftLeft(BitAnd(ToInt32(byte), 31), shift))
          IN  IF AtLeast(byte, 32) /\ i + 1 < Len(str)
                THEN DoWhile(str, i + 1, r, shift + 5)
                ELSE [result |-> r, index |-> i + 1]
          : byte \in {Minus(charCodeAt(str, i), 63)} } : TRUE

\* Mutant: the sign bit is not undone.
decodeChunkUnsigned(str, startIndex) ==
    LET d == DoWhile(str, startIndex, 0, 0)
    IN  [value |-> ShiftRightOne(d.result), nextIndex |-> d.index]

decodeChunk(str, startIndex) ==
    CHOOSE c \in
        { LET shouldNegate == BitAnd(d.result, 1)
          IN  [value |-> IF shouldNegate # 0 THEN BitNot(ShiftRightOne(d.result))
                                             ELSE ShiftRightOne(d.result),
               nextIndex |-> d.index]
          : d \in {DoWhile(str, startIndex, 0, 0)} } : TRUE

\* n * 1e-5: the model keeps n, the value in units of 1e-5 degree.
Times1e5(n) == [units |-> n, scale |-> "1e-5"]

\* The standard polyline encoding of a signed value and of a sequence of
\* coordinate pairs, which the strings to decode are made with.
RECURSIVE EncodeUnsigned(_)
EncodeUnsigned(u) ==
    IF u >= 32 THEN << (32 + (u % 32)) + 63 >> \o EncodeUnsigned(u \div 32)
               ELSE << u + 63 >>

EncodeSigned(v) == EncodeUnsigned(IF v < 0 THEN -(2 * v) - 1 ELSE 2 * v)

RECURSIVE EncodeFrom(_, _, _)
EncodeFrom(pts, prevLat, prevLon) ==
    IF pts = <<>> THEN <<>>
    ELSE EncodeSigned(Head(pts)[1] - prevLat) \o EncodeSigned(Head(pts)[2] - prevLon)
           \o EncodeFrom(Tail(pts), Head(pts)[1], Head(pts)[2])

EncodePolyline(pts) == EncodeFrom(pts, 0, 0)

MaxPoints == 2

LatSamples == {-9000000, -1, 0, 9000000}

LonSamples == {-18000000, 0, 16, 18000000}

\* The points of the reference example of the encoding.
ReferencePoints ==
    << <<3850000, -12020000>>, <<4070000, -12095000>>, <<4325200, -12645300>> >>

PointSeqs ==
    UNION { [1..n -> LatSamples \X LonSamples] : n \in 0..MaxPoints }
      \cup { ReferencePoints }

bridge == <<apiBase, proc, pc, call, sent, resp, read, out, registry, listed>>

\* The bridge is not part of the page that decodes polylines.
BridgeOff ==
    /\ apiBase = NoApiBase
    /\ proc = "exited"
    /\ pc = [i \in Calls |-> "idle"]
    /\ call = [i \in Calls |-> NoRequest]
    /\ sent = [i \in Calls |-> <<>>]
    /\ resp = [i \in Calls |-> 0]
    /\ read = [i \in Calls |-> NoText]
    /\ out = [i \in Calls |-> <<>>]
    /\ registry = <<>>
    /\ listed = <<>>

InitPolyline ==
    /\ BridgeOff
    /\ SiteOff
    /\ points \in PointSeqs
    /\ value = EncodePolyline(points)
    /\ index = 0
    /\ lat = 0
    /\ lon = 0
    /\ coordinates = <<>>
    /\ ppc = "call"

\* if (!value) return []; else the locals are set up.
DecodeStart ==
    /\ ppc = "call"
    /\ ppc' = IF value = <<>> THEN "returned" ELSE "loop"
    /\ coordinates' = <<>>
    /\ index' = 0
    /\ lat' = 0
    /\ lon' = 0
    /\ UNCHANGED <<site, bridge, points, value>>

\* Mutant: the chunks are taken as coordinates, not as differences.
DecodeStepAbsolute ==
    /\ ppc = "loop"
    /\ index < Len(value)
    /\ \E resultLat \in {decodeChunk(value, index)} :
         \E resultLon \in {decodeChunk(value, resultLat.nextIndex)} :
           /\ lat' = resultLat.value
           /\ lon' = resultLon.value
           /\ index' = resultLon.nextIndex
           /\ coordinates' = Append(coordinates, << Times1e5(lat'), Times1e5(lon') >>)
    /\ UNCHANGED <<site, bridge, points, value, ppc>>

\* One pass of while (index < value.length).
DecodeStep ==
    /\ ppc = "loop"
    /\ index < Len(value)
    /\ \E resultLat \in {decodeChunk(value, index)} :
         \E resultLon \in {decodeChunk(value, resultLat.nextIndex)} :
           /\ lat' = lat + resultLat.value
           /\ lon' = lon + resultLon.value
           /\ index' = resultLon.nextIndex
           /\ coordinates' = Append(coordinates, << Times1e5(lat'), Times1e5(lon') >>)
    /\ UNCHANGED <<site, bridge, points, value, ppc>>

\* The loop ends: return coordinates.
DecodeReturn ==
    /\ ppc = "loop"
    /\ index >= Len(value)
    /\ ppc' = "returned"
    /\ UNCHANGED <<site, bridge, points, value, index, lat, lon, coordinates>>

NextPolyline == DecodeStart \/ DecodeStep \/ DecodeReturn

SpecPolyline == InitPolyline /\ [][NextPolyline]_vars

----------------------------------------------------------------------------
(* The dashboard's API client and the proxy routes *)

\* NEXT_PUBLIC_SAR_API_BASE with one trailing slash removed, null if unset.
PUBLIC_API_BASE(env) ==
    IF ~env.set THEN NoApiBase
    ELSE IF EndsWithSlash(env.path) THEN [env EXCEPT !.path = DropLast(@)]
    ELSE env

\* Mutant: the public base is not looked at.
buildUrlLocal(path, env) ==
    [origin |-> "", path |-> <<"/", "api", "/">> \o toRelativePath(path)]

\* buildUrl(path): the origin ("" for the application's own) and the path.
buildUrl(path, env) ==
    LET trimmed == IF StartsWithSlash(path) THEN Tail(path) ELSE path
        base == PUBLIC_API_BASE(env)
    IN  IF ~Falsy(base)
          THEN [origin |-> base.origin, path |-> base.path \o <<"/">> \o trimmed]
          ELSE [origin |-> "", path |-> <<"/", "api", "/">> \o trimmed]

\* The functions of the API client.
Operations ==
    {"getEvents", "ingestEvent", "explainEvent", "requestAltRoute",
     "setGeofenceAlert", "simulateReplay"}

\* The path an operation passes to fetchJson, and to callBackendJson in its
\* proxy route.
OperationPath(op, eventId) ==
    CASE op = "getEvents"        -> <<"events">>
      [] op = "ingestEvent"      -> <<"ingest">>
      [] op = "explainEvent"     ->
           <<"events", "/">> \o encodeURIComponent(eventId) \o <<"/", "explain">>
      [] op = "requestAltRoute"  -> <<"routes", "/", "alt">>
      [] op = "setGeofenceAlert" -> <<"alerts", "/", "geofence">>
      [] op = "simulateReplay"   -> <<"simulate", "/", "replay">>

OperationMethod(op) ==
    IF op \in {"getEvents", "explainEvent"} THEN "GET" ELSE "POST"

\* The proxy routes that read the request body.
ReadsBody(op) == op \in {"ingestEvent", "requestAltRoute", "setGeofenceAlert"}

\* The fallbackMessage of each proxy route.
FallbackMessage(op) ==
    CASE op = "getEvents"        -> "Failed to load events"
      [] op = "ingestEvent"      -> "Failed to ingest event"
      [] op = "explainEvent"     -> "Failed to fetch event explanation"
      [] op = "requestAltRoute"  -> "Failed to fetch alternate route"
      [] op = "setGeofenceAlert" -> "Failed to set geofence alert"
      [] op = "simulateReplay"   -> "Failed to start replay simulation"

\* baseUrl of server-api.ts: SAR_API_BASE ending with a slash, or undefined.
baseUrl(env) == IF Falsy(env) THEN NoApiBase ELSE BASE_URL(env)

MissingBase == Body(Garbage(<<"Missing SAR_API_BASE env var">>))

\* An error caught by a proxy route: a BackendRequestError or another one.
BackendRequestError(status, payload) ==
    [backend |-> TRUE, status |-> status, payload |-> payload]

OtherError == [backend |-> FALSE, status |-> 0, payload |-> NoText]

\* A response of a proxy route: the status and the keys of the JSON body.
RouteResponse(status, keys, message, details, data) ==
    [status |-> status, keys |-> keys, message |-> message, details |-> details,
     data |-> data]

\* Mutant: every failure is answered with status 500 and the message only.
backendErrorResponsePlain(error, fallbackMessage) ==
    RouteResponse(500, {"message"}, fallbackMessage, NoText, JNull)

backendErrorResponse(error, fallbackMessage) ==
    IF error.backend
      THEN RouteResponse(error.status, {"message", "details"}, fallbackMessage,
                         error.payload, JNull)
      ELSE RouteResponse(500, {"message"}, fallbackMessage, NoText, JNull)

\* NextResponse.json(data)
DataResponse(data) == RouteResponse(200, {"data"}, "", NoText, data)

NoResponse == RouteResponse(0, {}, "", NoText, JNull)

NoUrl == [origin |-> "", path |-> <<>>]

PublicBases ==
    { NoApiBase, ApiBase("", <<>>), ApiBase(Origin, <<"/", "prod">>),
      ApiBase(Origin, <<"/", "prod", "/">>) }

ServerBases == { NoApiBase, ApiBase(Origin, <<"/", "prod">>) }

WebEventIds == { <<"e1">>, <<"a", "/", "b">> }

BackendStatuses == {200, 404, 500}

InitWeb ==
    /\ BridgeOff
    /\ DecoderOff
    /\ page = [on |-> FALSE]
    /\ fn = [name |-> ""]
    /\ \E pub \in PublicBases, srv \in ServerBases :
           web = [publicBase |-> pub,     \* NEXT_PUBLIC_SAR_API_BASE
                  serverBase |-> srv,     \* SAR_API_BASE
                  wpc |-> "idle",         \* where the one request is
                  op |-> "",              \* the operation called
                  eventId |-> <<>>,       \* the eventId of explainEvent
                  from |-> "",            \* "dashboard" or "other"
                  url |-> NoUrl,          \* the URL the caller fetched
                  wellFormed |-> TRUE,    \* the request body parses as JSON
                  reached |-> <<>>,       \* who contacted the backend, in order
                  backendUrl |-> NoUrl,   \* the URL the backend was asked for
                  status |-> 0,           \* the status the backend answered
                  text |-> NoText,        \* the body the backend answered
                  rejected |-> FALSE,     \* the fetch of the backend rejected
                  response |-> NoResponse] \* the response of the proxy route

\* The dashboard calls a function of the API client: fetchJson fetches
\* buildUrl(path), which is a proxy route or the public base.
ClientCalls(op, eventId) ==
    /\ web.wpc = "idle"
    /\ LET url == buildUrl(OperationPath(op, eventId), web.publicBase)
       IN  web' = [web EXCEPT !.op = op, !.eventId = eventId, !.from = "dashboard",
                              !.url = url,
                              !.wpc = IF url.origin = "" THEN "route" ELSE "direct",
                              !.reached = IF url.origin = "" THEN @
                                                             ELSE Append(@, "browser")]
    /\ UNCHANGED <<bridge, decoder, page, fn>>

\* Another HTTP client calls a proxy route, with a body that may not parse.
OtherCalls(op, eventId, wellFormed) ==
    /\ web.wpc = "idle"
    /\ web' = [web EXCEPT !.op = op, !.eventId = eventId, !.from = "other",
                          !.wellFormed = wellFormed,
                          !.url = [origin |-> "",
                                   path |-> <<"/", "api", "/">> \o OperationPath(op, eventId)],
                          !.wpc = "route"]
    /\ UNCHANGED <<bridge, decoder, page, fn>>

\* The handler of the proxy route runs up to the await of the backend's
\* answer, or fails before.
RouteRuns ==
    /\ web.wpc = "route"
    /\ IF ReadsBody(web.op) /\ ~web.wellFormed
         THEN web' = [web EXCEPT !.wpc = "responded",
                                 !.response = backendErrorResponse(OtherError,
                                                                   FallbackMessage(web.op))]
       ELSE IF ~baseUrl(web.serverBase).set
         THEN web' = [web EXCEPT !.wpc = "responded",
                                 !.response = backendErrorResponse(
                                                  BackendRequestError(500, MissingBase),
                                                  FallbackMessage(web.op))]
       ELSE web' = [web EXCEPT !.wpc = "backend",
                               !.reached = Append(@, "proxy"),
                               !.backendUrl =
                                   NewURL(toRelativePath(OperationPath(web.op, web.eventId)),
                                          baseUrl(web.serverBase))]
    /\ UNCHANGED <<bridge, decoder, page, fn>>

\* The fetch of the backend rejects.
BackendRejects ==
    /\ web.wpc = "backend"
    /\ web' = [web EXCEPT !.wpc = "responded", !.rejected = TRUE,
                          !.response = backendErrorResponse(OtherError,
                                                            FallbackMessage(web.op))]
    /\ UNCHANGED <<bridge, decoder, page, fn>>

\* The backend answers: callBackend throws on a status that is not ok,
\* callBackendJson parses the body of one that is.
BackendAnswers(status, body) ==
    /\ web.wpc = "backend"
    /\ LET p == JSONParse(body)
           r == IF ~ResponseOk(status)
                  THEN backendErrorResponse(BackendRequestError(status, body),
                                            FallbackMessage(web.op))
                ELSE IF p.ok THEN DataResponse(p.value)
                ELSE backendErrorResponse(OtherError, FallbackMessage(web.op))
       IN  web' = [web EXCEPT !.wpc = "responded", !.status = status, !.text = body,
                              !.response = r]
    /\ UNCHANGED <<bridge, decoder, page, fn>>

NextWeb ==
    \/ \E op \in Operations, id \in WebEventIds : ClientCalls(op, id)
    \/ \E op \in Operations, id \in WebEventIds, wf \in BOOLEAN : OtherCalls(op, id, wf)
    \/ RouteRuns
    \/ BackendRejects
    \/ \E status \in BackendStatuses, body \in Bodies : BackendAnswers(status, body)

SpecWeb == InitWeb /\ [][NextWeb]_vars

----------------------------------------------------------------------------
(* fetchJson's ApiError and extractErrorMessage *)

JUndefined == [k |-> "undefined", v |-> <<>>, f |-> <<>>]

\* A thrown value: an ApiError, another Error, or a value that is no Error.
Thrown(class, status, message, details) ==
    [class |-> class, status |-> status, message |-> message, details |-> details]

\* The ApiError fetchJson throws for a response that is not ok.
fetchJsonError(response) ==
    LET p == JSONParse(response.text)
        details == IF response.text = NoText THEN JUndefined
                   ELSE IF p.ok THEN p.value
                   ELSE JStr(response.text.syn.v)
    IN  Thrown("ApiError", response.status,
               IF response.statusText = <<>> THEN <<"Request failed">>
                                             ELSE response.statusText,
               details)

\* String(value)
StringOf(x) ==
    CASE x.k \in {"str", "num", "bool"} -> x.v
      [] x.k = "null"                   -> <<"null">>
      [] x.k = "undefined"              -> <<"undefined">>
      [] OTHER                          -> <<"[object Object]">>

\* A message: a text, or `${status} · ${text}`.
Text(s) == [fmt |-> "text", status |-> 0, text |-> s]

StatusAndText(status, s) == [fmt |-> "status · text", status |-> status, text |-> s]

\* Mutant: an ApiError is always shown by status and message.
extractErrorMessageStatusOnly(error) ==
    CASE error.class = "ApiError" -> StatusAndText(error.status, error.message)
      [] error.class = "Error"    -> Text(error.message)
      [] OTHER                    -> Text(<<"Unexpected error">>)

extractErrorMessage(error) ==
    CASE error.class = "ApiError" ->
           IF error.details.k = "obj" /\ Has(error.details, "message")
             THEN Text(StringOf(Get(error.details, "message")))
           ELSE IF error.details.k = "str"
             THEN Text(error.details.v)
           ELSE StatusAndText(error.status, error.message)
      [] error.class = "Error" -> Text(error.message)
      [] OTHER                 -> Text(<<"Unexpected error">>)

FailedStatuses == {400, 404, 500}

StatusTexts == { <<>>, <<"Not Found">> }

ErrorTexts ==
    { NoText,
      Body(Garbage(<<"<html>">>)),
      Body(Lit("string", <<"boom">>)),
      Body(Lit("number", <<"42">>)),
      Body(Lit("null", <<"null">>)),
      Body([k |-> "array", v |-> <<>>, f |-> <<>>]),
      Body([k |-> "object", v |-> <<>>,
            f |-> << Member("error", Lit("string", <<"no such route">>)) >>]),
      Body([k |-> "object", v |-> <<>>,
            f |-> << Member("message", Lit("null", <<"null">>)) >>]),
      Body([k |-> "object", v |-> <<>>,
            f |-> << Member("message", Lit("string", <<"Failed to ingest event">>)),
                     Member("details", Lit("string", <<"backend said no">>)) >>]) }

NoResponseRead == [status |-> 0, statusText |-> <<>>, text |-> NoText]

\* What a mutation's promise can reject with besides an ApiError.
OtherThrown ==
    { Thrown("Error", 0, <<"Failed to fetch">>, JUndefined),
      Thrown("Error", 0, <<>>, JUndefined),
      Thrown("", 0, <<>>, JUndefined) }

NoThrown == Thrown("", 0, <<>>, JNull)

InitMessage ==
    /\ BridgeOff
    /\ DecoderOff
    /\ web = [wpc |-> "off"]
    /\ page = [on |-> FALSE]
    /\ \/ \E st \in FailedStatuses, tx \in StatusTexts, body \in ErrorTexts :
             fn = [name |-> "extractErrorMessage", at |-> "response",
                   response |-> [status |-> st, statusText |-> tx, text |-> body],
                   error |-> NoThrown, ret |-> Text(<<>>)]
       \/ \E e \in OtherThrown :
             fn = [name |-> "extractErrorMessage", at |-> "thrown",
                   response |-> NoResponseRead, error |-> e, ret |-> Text(<<>>)]

\* fetchJson reads the body of the response that is not ok and throws.
FetchJsonThrows ==
    /\ fn.at = "response"
    /\ fn' = [fn EXCEPT !.at = "thrown", !.error = fetchJsonError(fn.response)]
    /\ UNCHANGED <<bridge, decoder, web, page>>

\* onError: the toast and the activity entry show extractErrorMessage(error).
OnErrorShows ==
    /\ fn.at = "thrown"
    /\ fn' = [fn EXCEPT !.at = "shown", !.ret = extractErrorMessage(fn.error)]
    /\ UNCHANGED <<bridge, decoder, web, page>>

NextMessage == FetchJsonThrows \/ OnErrorShows

SpecMessage == InitMessage /\ [][NextMessage]_vars

----------------------------------------------------------------------------
(* The polyline decoder on any string *)

MaxPieces == 3

\* Pieces of strings, as char codes: chunks of one character, a character
\* with the continuation bit set (which makes a longer chunk of what follows
\* it, or is cut short by the end of the string), a character below "?",
\* and complete chunks of six, seven and eight characters.
StringPieces ==
    { <<63>>,
      <<64>>,
      <<95>>,
      <<32>>,
      <<126, 126, 126, 126, 126, 94>>,
      <<95, 95, 95, 95, 95, 95, 65>>,
      <<95, 95, 95, 95, 95, 95, 95, 64>> }

RECURSIVE Concat(_)
Concat(pieces) == IF pieces = <<>> THEN <<>> ELSE Head(pieces) \o Concat(Tail(pieces))

AnyStrings == { Concat(ps) : ps \in UNION { [1..n -> StringPieces] : n \in 0..MaxPieces } }

\* decodeGooglePolyline is called with a string that need not be an encoding.
InitAnyString ==
    /\ BridgeOff
    /\ SiteOff
    /\ points = <<>>
    /\ value \in AnyStrings
    /\ index = 0
    /\ lat = 0
    /\ lon = 0
    /\ coordinates = <<>>
    /\ ppc = "call"

SpecAnyString == InitAnyString /\ [][NextPolyline]_vars

\* The function is one synchronous call: it runs on until it returns.
SpecAnyStringRuns == SpecAnyString /\ WF_vars(NextPolyline)

----------------------------------------------------------------------------
(* The dashboard page: the events list and the selected event *)

MaxEvents == 3

\* The event ids the backend gives out are 1, 2, ... MaxEvents; 0 stands
\* for null.
PageEventIds == 1..MaxEvents

Contains(events, id) == \E k \in 1..Len(events) : events[k] = id

Without(events, id) == SelectSeq(events, LAMBDA e : e # id)

\* The lists the backend may hold when the page is opened.
StoredAtFirst == { <<>>, <<1>> }

InitSelection ==
    /\ BridgeOff
    /\ DecoderOff
    /\ web = [wpc |-> "off"]
    /\ fn = [name |-> ""]
    /\ \E st \in StoredAtFirst :
           page = [on |-> TRUE,
                   events |-> <<>>,          \* data?.events ?? []
                   selectedEventId |-> 0,    \* useState(null)
                   effectDue |-> TRUE,       \* the selection effect has yet to run
                   stored |-> st,            \* the events the backend holds
                   nextId |-> Len(st) + 1,   \* the id the backend gives out next
                   fetch |-> "sent",         \* the events query: idle, sent, answered
                   snapshot |-> <<>>,        \* the list in the answer under way
                   ingest |-> "idle",        \* the ingest mutation: idle, sent, stored
                   answer |-> 0,             \* the eventId in the answer under way
                   created |-> 0,            \* the event created last and not left since
                   refetched |-> FALSE]      \* a list asked for after it was created arrived

\* The events query fetches: on refetchInterval, or on Refresh in the feed.
FetchStarts ==
    /\ page.fetch = "idle"
    /\ page' = [page EXCEPT !.fetch = "sent"]
    /\ UNCHANGED <<bridge, decoder, web, fn>>

\* The backend answers getEvents with the events it holds.
BackendLists ==
    /\ page.fetch = "sent"
    /\ page' = [page EXCEPT !.fetch = "answered", !.snapshot = page.stored]
    /\ UNCHANGED <<bridge, decoder, web, fn>>

\* The answer arrives: data, and with it events, is the list answered.
ListArrives ==
    /\ page.fetch = "answered"
    /\ page' = [page EXCEPT !.fetch = "idle",
                            !.events = page.snapshot,
                            !.effectDue = page.effectDue \/ page.snapshot # page.events,
                            !.refetched = page.created # 0]
    /\ UNCHANGED <<bridge, decoder, web, fn>>

\* The query fails: data stays what it was.
FetchFails ==
    /\ page.fetch \in {"sent", "answered"}
    /\ page' = [page EXCEPT !.fetch = "idle"]
    /\ UNCHANGED <<bridge, decoder, web, fn>>

\* An event leaves the list the backend answers with.
BackendDrops(id) ==
    /\ Contains(page.stored, id)
    /\ page' = [page EXCEPT !.stored = Without(page.stored, id)]
    /\ UNCHANGED <<bridge, decoder, web, fn>>

\* The Report form is submitted: ingestMutation.mutate.
IngestSubmitted ==
    /\ page.ingest = "idle"
    /\ page' = [page EXCEPT !.ingest = "sent"]
    /\ UNCHANGED <<bridge, decoder, web, fn>>

\* The backend stores the event under a new id, before or after the events
\* it holds, and answers with the id.
BackendStores(first) ==
    /\ page.ingest = "sent"
    /\ page.nextId <= MaxEvents
    /\ page' = [page EXCEPT !.ingest = "stored",
                            !.answer = page.nextId,
                            !.nextId = page.nextId + 1,
                            !.stored = IF first THEN <<page.nextId>> \o page.stored
                                                ELSE Append(page.stored, page.nextId)]
    /\ UNCHANGED <<bridge, decoder, web, fn>>

\* ingestMutation.onSuccess: the events query is invalidated, which ends a
\* fetch under way and fetches again, and onEventCreated(data.eventId) is
\* setSelectedEventId.
IngestSucceeds ==
    /\ page.ingest = "stored"
    /\ page' = [page EXCEPT !.ingest = "idle", !.answer = 0, !.fetch = "sent",
                            !.selectedEventId = page.answer,
                            !.effectDue = page.effectDue \/ page.selectedEventId # page.answer,
                            !.created = page.answer, !.refetched = FALSE]
    /\ UNCHANGED <<bridge, decoder, web, fn>>

\* ingestMutation.onError: the selection is left alone.
IngestFails ==
    /\ page.ingest = "sent"
    /\ page' = [page EXCEPT !.ingest = "idle"]
    /\ UNCHANGED <<bridge, decoder, web, fn>>

\* onSelect of the feed and of the map, with an event they show.
SelectShown(id) ==
    /\ Contains(page.events, id)
    /\ id # page.selectedEventId
    /\ page' = [page EXCEPT !.selectedEventId = id, !.effectDue = TRUE, !.created = 0]
    /\ UNCHANGED <<bridge, decoder, web, fn>>

\* Mutant: a selection that is no longer in the list is kept.
EffectSelectsUnrepaired(events, selectedEventId) ==
    IF Len(events) = 0 THEN 0
    ELSE IF selectedEventId = 0 THEN events[1]
    ELSE selectedEventId

\* The selection an effect run asks for.
EffectSelects(events, selectedEventId) ==
    IF Len(events) = 0 THEN 0
    ELSE IF selectedEventId = 0 THEN events[1]
    ELSE IF ~Contains(events, selectedEventId) THEN events[1]
    ELSE selectedEventId

\* The effect on [events, selectedEventId] runs; it runs again when it
\* changed the selection.
SelectionEffect ==
    /\ page.effectDue
    /\ LET next == EffectSelects(page.events, page.selectedEventId)
       IN  page' = [page EXCEPT !.selectedEventId = next,
                                !.effectDue = next # page.selectedEventId]
    /\ UNCHANGED <<bridge, decoder, web, fn>>

NextSelection ==
    \/ FetchStarts
    \/ BackendLists
    \/ ListArrives
    \/ FetchFails
    \/ \E id \in PageEventIds : BackendDrops(id)
    \/ IngestSubmitted
    \/ \E first \in BOOLEAN : BackendStores(first)
    \/ IngestSucceeds
    \/ IngestFails
    \/ \E id \in PageEventIds : SelectShown(id)
    \/ SelectionEffect

SpecSelection == InitSelection /\ [][NextSelection]_vars

----------------------------------------------------------------------------
(* The dashboard page: picking coordinates on the map *)

MaxClicks == 3

\* The ids of the coordinate requests, one per pick button.
RequestIds == {"ingest-location", "route-origin", "route-destination", "geofence-center"}

\* Coordinates in units of 1e-4 degree.
Coords(la, lo) == [lat |-> la, lon |-> lo]

\* Number(value.toFixed(3)): to the nearest 1e-3 degree.
roundCoord(v) ==
    LET a == IF v < 0 THEN -v ELSE v
        r == ((a + 5) \div 10) * 10
    IN  IF v < 0 THEN -r ELSE r

\* The default values of the fields the pick buttons fill.
FormDefaults ==
    [r \in RequestIds |->
        IF r = "route-destination" THEN Coords(31550, 1017120) ELSE Coords(30430, 1014490)]

\* The points of the map that are clicked.
ClickedCoords == { Coords(30432, 1014498), Coords(-338688, -1512093) }

NoCoords == Coords(0, 0)

InitPicking ==
    /\ BridgeOff
    /\ DecoderOff
    /\ web = [wpc |-> "off"]
    /\ fn = [name |-> ""]
    /\ page = [on |-> TRUE,
               coordinateRequest |-> "",    \* the id of the request, "" for null
               forms |-> FormDefaults,      \* the fields of the request's onSelect
               clicks |-> 0,                \* the clicks on the map so far
               delivered |-> 0,             \* the calls of an onSelect so far
               deliveredTo |-> "",          \* the request whose onSelect ran last
               deliveredCoords |-> NoCoords] \* and what it was called with

\* Mutant: the request stays after its onSelect ran.
handleCoordinatePickedKeeps(coords) ==
    /\ page.coordinateRequest # ""
    /\ page' = [page EXCEPT !.forms[page.coordinateRequest] =
                                Coords(roundCoord(coords.lat), roundCoord(coords.lon)),
                            !.delivered = page.delivered + 1,
                            !.deliveredTo = page.coordinateRequest,
                            !.deliveredCoords = coords,
                            !.clicks = page.clicks + 1]

\* coordinateRequest?.onSelect(coords), which sets the two fields of the
\* request's form to the rounded coordinates; setCoordinateRequest(null).
handleCoordinatePicked(coords) ==
    page' = [page EXCEPT !.forms[page.coordinateRequest] =
                             IF page.coordinateRequest = "" THEN @
                             ELSE Coords(roundCoord(coords.lat), roundCoord(coords.lon)),
                         !.delivered = IF page.coordinateRequest = "" THEN @ ELSE @ + 1,
                         !.deliveredTo = IF page.coordinateRequest = "" THEN @
                                         ELSE page.coordinateRequest,
                         !.deliveredCoords = IF page.coordinateRequest = "" THEN @ ELSE coords,
                         !.coordinateRequest = "",
                         !.clicks = page.clicks + 1]

\* A click on the map: the ClickHandler, which is there only while a
\* request is active, calls onCoordinatePick.
MapClick(coords) ==
    /\ page.clicks < MaxClicks
    /\ IF page.coordinateRequest # ""
         THEN handleCoordinatePicked(coords)
         ELSE page' = [page EXCEPT !.clicks = page.clicks + 1]
    /\ UNCHANGED <<bridge, decoder, web, fn>>

\* A pick button is pressed: it ends its own request, or makes its request
\* the active one.
PickPressed(id) ==
    /\ page' = [page EXCEPT !.coordinateRequest =
                                IF page.coordinateRequest = id THEN "" ELSE id]
    /\ UNCHANGED <<bridge, decoder, web, fn>>

\* Cancel, which is shown while a request is active.
CancelPressed ==
    /\ page.coordinateRequest # ""
    /\ page' = [page EXCEPT !.coordinateRequest = ""]
    /\ UNCHANGED <<bridge, decoder, web, fn>>

NextPicking ==
    \/ \E coords \in ClickedCoords : MapClick(coords)
    \/ \E id \in RequestIds : PickPressed(id)
    \/ CancelPressed

SpecPicking == InitPicking /\ [][NextPicking]_vars

----------------------------------------------------------------------------
(* Severity: the filters of the feed and the badge *)

\* A severity: a number, kept in tenths, or NaN, null or undefined.
Severity(kind, tenths) == [kind |-> kind, tenths |-> tenths]

Tenths(n) == n * 10

\* SEVERITY_LEVELS
SEVERITY_LEVELS ==
    << [threshold |-> Tenths(80), label |-> "Critical"],
       [threshold |-> Tenths(50), label |-> "High"],
       [threshold |-> Tenths(20), label |-> "Elevated"] >>

\* The label of getSeverityMeta(severity).
getSeverityMeta(severity) ==
    IF severity.kind \in {"undefined", "null"} THEN "Unknown"
    ELSE LET matches == { k \in 1..Len(SEVERITY_LEVELS) :
                            /\ severity.kind = "number"
                            /\ severity.tenths >= SEVERITY_LEVELS[k].threshold }
         IN  IF matches # {}
               THEN SEVERITY_LEVELS[CHOOSE k \in matches : \A j \in matches : k <= j].label
               ELSE "Low"

\* event.severity ?? null
OrNull(severity) == IF severity.kind = "undefined" THEN Severity("null", 0) ELSE severity

checkSeverityMatch(severity, filter) ==
    IF filter = "all" THEN TRUE
    ELSE IF severity.kind \in {"null", "nan"} THEN filter = "low"
    ELSE IF filter = "critical" THEN severity.tenths >= Tenths(80)
    ELSE IF filter = "high" THEN severity.tenths >= Tenths(50) /\ severity.tenths < Tenths(80)
    ELSE IF filter = "elevated" THEN severity.tenths >= Tenths(20) /\ severity.tenths < Tenths(50)
    ELSE severity.tenths < Tenths(20)

SeverityFilters == {"critical", "high", "elevated", "low"}

Severities ==
    { Severity("undefined", 0), Severity("null", 0), Severity("nan", 0) }
      \cup { Severity("number", t) :
               t \in { -50, 0, 199, 200, 205, 499, 500, 795, 799, 800, 1000, 1500 } }

InitSeverity ==
    /\ BridgeOff
    /\ DecoderOff
    /\ web = [wpc |-> "off"]
    /\ page = [on |-> FALSE]
    /\ \E s \in Severities, f \in SeverityFilters \cup {"all"} :
           fn = [name |-> "severity",
                 severity |-> s,          \* event.severity
                 filter |-> f,            \* severityFilter
                 filtered |-> FALSE,      \* the feed has applied its filter
                 shown |-> FALSE,         \* the event is in filteredEvents
                 badged |-> FALSE,        \* a badge was made for the event
                 label |-> ""]            \* the label of the badge

\* filteredEvents: the event stays when the severity filter matches it.
FeedFilters ==
    /\ ~fn.filtered
    /\ fn' = [fn EXCEPT !.filtered = TRUE,
                        !.shown = (fn.filter = "all"
                                     \/ checkSeverityMatch(OrNull(fn.severity), fn.filter))]
    /\ UNCHANGED <<bridge, decoder, web, page>>

\* The feed, the map and the event page show getSeverityMeta(event.severity).
BadgeShows ==
    /\ ~fn.badged
    /\ fn' = [fn EXCEPT !.badged = TRUE, !.label = getSeverityMeta(fn.severity)]
    /\ UNCHANGED <<bridge, decoder, web, page>>

NextSeverity == FeedFilters \/ BadgeShows

SpecSeverity == InitSeverity /\ [][NextSeverity]_vars

----------------------------------------------------------------------------
(* The operations panel: the mutations and the activity log *)

MaxOperations == 3

\* The four mutations of the panel.
Mutations == {"ingest", "altRoute", "geofence", "simulation"}

\* seq.slice(from, to), from and to counted from 0 and not negative.
Slice(seq, from, to) ==
    LET last == IF to < Len(seq) THEN to ELSE Len(seq)
    IN  IF from >= last THEN <<>> ELSE SubSeq(seq, from + 1, last)

\* An entry of the log: the mutation its label names, its status, and its
\* timestamp, which the model counts in entries made.
ActivityLogEntry(mutation, status, timestamp) ==
    [mutation |-> mutation, status |-> status, timestamp |-> timestamp]

\* Mutant: the new entry is put last.
pushActivityLast(previous, record) == Slice(Append(previous, record), 0, 8)

\* The updater of pushActivity: [record, ...previous].slice(0, 8)
pushActivity(previous, record) == Slice(<<record>> \o previous, 0, 8)

\* The log after n reports were dispatched with success, and nothing else.
RECURSIVE LogAfter(_)
LogAfter(n) ==
    IF n = 0 THEN <<>>
    ELSE pushActivity(LogAfter(n - 1), ActivityLogEntry("ingest", "success", n))

RECURSIVE SettledAfter(_)
SettledAfter(n) ==
    IF n = 0 THEN <<>>
    ELSE Append(SettledAfter(n - 1), [mutation |-> "ingest", status |-> "success"])

\* The panel after 0 to 9 operations; MaxOperations more are followed.
InitActivity ==
    /\ BridgeOff
    /\ DecoderOff
    /\ web = [wpc |-> "off"]
    /\ fn = [name |-> ""]
    /\ \E n \in 0..9 :
           page = [on |-> TRUE,
                   activityLog |-> LogAfter(n),    \* useState([]), and n entries made
                   isPending |-> {},               \* the mutations under way
                   made |-> n,                     \* the entries made so far
                   settled |-> SettledAfter(n),    \* the operations settled, in order
                   submitted |-> 0]                \* the operations followed so far

\* A form is submitted, or the replay button pressed; the button is
\* disabled while its mutation is pending.
Mutate(m) ==
    /\ m \notin page.isPending
    /\ page.submitted < MaxOperations
    /\ page' = [page EXCEPT !.isPending = @ \cup {m}, !.submitted = @ + 1]
    /\ UNCHANGED <<bridge, decoder, web, fn>>

\* onSuccess of mutation m, with an answer of the shape the callback reads.
OnSuccess(m) ==
    /\ m \in page.isPending
    /\ page' = [page EXCEPT
                  !.isPending = @ \ {m},
                  !.activityLog = pushActivity(@, ActivityLogEntry(m, "success", page.made + 1)),
                  !.made = @ + 1,
                  !.settled = Append(@, [mutation |-> m, status |-> "success"])]
    /\ UNCHANGED <<bridge, decoder, web, fn>>

\* onError of mutation m.
OnError(m) ==
    /\ m \in page.isPending
    /\ page' = [page EXCEPT
                  !.isPending = @ \ {m},
                  !.activityLog = pushActivity(@, ActivityLogEntry(m, "error", page.made + 1)),
                  !.made = @ + 1,
                  !.settled = Append(@, [mutation |-> m, status |-> "error"])]
    /\ UNCHANGED <<bridge, decoder, web, fn>>

NextActivity ==
    \/ \E m \in Mutations : Mutate(m)
    \/ \E m \in Mutations : OnSuccess(m)
    \/ \E m \in Mutations : OnError(m)

SpecActivity == InitActivity /\ [][NextActivity]_vars

----------------------------------------------------------------------------
(* Properties *)

SixTools ==
    {"ingest_event", "list_events", "explain_event", "alt_route",
     "set_geofence_alert", "simulate_replay"}

Dispatched(i) == pc[i] # "idle"

Done(i) == pc[i] = "done"

InFlight(i) == pc[i] = "fetch"

\* The arguments pass the validator of the tool named.
PassesValidator(rq) ==
    /\ rq.name \in SixTools
    /\ HasInputSchema(rq.name) => SafeParse(InputSchema(rq.name), rq.arguments).success

NonEmpty(seg) == seg # <<>>

\* The path prefix of the configured base URL, as segments.
Prefix == SelectSeq(Split(apiBase.path), NonEmpty)

DocumentedMethod(name) ==
    IF name \in {"list_events", "explain_event"} THEN "GET" ELSE "POST"

\* The documented path of a tool, as segments; {eventId} is the URL-encoded
\* argument, one segment.
DocumentedPath(rq) ==
    CASE rq.name = "ingest_event"       -> << <<"ingest">> >>
      [] rq.name = "list_events"        -> << <<"events">> >>
      [] rq.name = "explain_event"      ->
           << <<"events">>, encodeURIComponent(Get(rq.arguments, "eventId").v),
              <<"explain">> >>
      [] rq.name = "alt_route"          -> << <<"routes">>, <<"alt">> >>
      [] rq.name = "set_geofence_alert" -> << <<"alerts">>, <<"geofence">> >>
      [] rq.name = "simulate_replay"    -> << <<"simulate">>, <<"replay">> >>

\* C1: a call of a registered tool with arguments that pass its validator
\* produces exactly one outbound HTTP request, with the documented method
\* and the documented path under the base URL's prefix.
C1_OneRequestToDocumentedRoute ==
    \A i \in Calls :
        (Dispatched(i) /\ PassesValidator(call[i])) =>
            /\ Len(sent[i]) = 1
            /\ sent[i][1].method = DocumentedMethod(call[i].name)
            /\ sent[i][1].url.pathname = Prefix \o DocumentedPath(call[i])

\* C2: a call naming a tool that is not one of the six registered names is
\* answered with one unknown-tool error and no outbound HTTP request.
C2_UnknownToolNoRequest ==
    \A i \in Calls :
        (Dispatched(i) /\ call[i].name \notin SixTools) =>
            /\ sent[i] = <<>>
            /\ Len(out[i]) = 1
            /\ out[i][1].kind = "error"
            /\ out[i][1].code = "unknown_tool"

C2_Witness ==
    \E i \in Calls : Done(i) /\ call[i].name = "delete_event" /\ Len(out[i]) = 1

NumberKeys(name) ==
    CASE name = "ingest_event"       -> {"lat", "lon"}
      [] name = "alt_route"          -> {"originLat", "originLon", "destLat", "destLon"}
      [] name = "set_geofence_alert" -> {"lat", "lon", "radiusKm"}
      [] OTHER                       -> {}

ArgIs(rq, n, kind) == Has(rq.arguments, n) /\ Get(rq.arguments, n).k = kind

\* The arguments fail the declared validator in one of the ways C3 names.
FailsValidator(rq) ==
    \/ /\ rq.name = "ingest_event"
       /\ ~(ArgIs(rq, "text", "str") /\ Len(Get(rq.arguments, "text").v) >= 3)
    \/ /\ rq.name = "ingest_event"
       /\ Has(rq.arguments, "mediaUrl")
       /\ ~(ArgIs(rq, "mediaUrl", "str") /\ IsUrl(Get(rq.arguments, "mediaUrl").v))
    \/ /\ rq.name = "explain_event"
       /\ ArgIs(rq, "eventId", "str")
       /\ Get(rq.arguments, "eventId").v = <<>>
    \/ \E n \in NumberKeys(rq.name) : Has(rq.arguments, n) /\ ~ArgIs(rq, n, "num")

ValidIngest(rq) ==
    /\ rq.name = "ingest_event"
    /\ ArgIs(rq, "text", "str") /\ Len(Get(rq.arguments, "text").v) >= 3
    /\ \A n \in {"lat", "lon"} : Has(rq.arguments, n) => ArgIs(rq, n, "num")
    /\ Has(rq.arguments, "mediaUrl") =>
           ArgIs(rq, "mediaUrl", "str") /\ IsUrl(Get(rq.arguments, "mediaUrl").v)

\* C3: arguments that fail the declared validator are answered with one
\* validation error and no outbound HTTP request; ingest_event with text of
\* length >= 3 and valid or omitted optional fields issues its request.
C3_ValidationBeforeRequest ==
    \A i \in Calls :
        Dispatched(i) =>
            /\ FailsValidator(call[i]) =>
                   /\ sent[i] = <<>>
                   /\ Len(out[i]) = 1
                   /\ out[i][1].kind = "error"
                   /\ out[i][1].code = "validation"
            /\ ValidIngest(call[i]) => Len(sent[i]) = 1

C3_Witness ==
    \E i, j \in Calls :
        /\ Done(i) /\ call[i].name = "ingest_event" /\ FailsValidator(call[i])
        /\ Dispatched(j) /\ ValidIngest(call[j]) /\ Has(call[j].arguments, "mediaUrl")

\* C4: every request has at most one outcome at any time and exactly one
\* once it is done, a success or an error; nothing is written for a call
\* that is not done.
C4_ExactlyOneOutcome ==
    \A i \in Calls :
        /\ Len(out[i]) <= 1
        /\ Done(i) <=> Len(out[i]) = 1
        /\ \A n \in 1..Len(out[i]) : out[i][n].kind \in {"success", "error"}

C4_Witness ==
    \E i, j \in Calls :
        /\ Done(i) /\ out[i][1].kind = "success"
        /\ Done(j) /\ out[j][1].kind = "error" /\ resp[j] = 404

\* C5 as stated: no two calls are in flight at once, a request is
\* dispatched only once the earlier one's response is written.
C5_NoOverlap ==
    \A i, j \in Calls : i # j => ~(InFlight(i) /\ InFlight(j))

CallState(i) == <<pc[i], call[i], sent[i], resp[i], read[i], out[i]>>

\* C5 as amended: calls may overlap but do not interfere.  Every step
\* changes the state of one call only, and a call's response is written
\* in the step that completes that call, after its own outbound request.
C5_CallsIndependent ==
    [][\A i \in Calls :
          /\ out'[i] # out[i] => (pc[i] # "done" /\ pc'[i] = "done")
          /\ CallState(i)' # CallState(i) =>
                 \A j \in Calls \ {i} : CallState(j)' = CallState(j)]_vars

C5_Witness ==
    \E i, j \in Calls : i # j /\ pc[i] = "fetch" /\ pc[j] = "fetch"

IsSuccessStatus(status) == status \in 200..299

\* C6: when the remote answers with a non-success status the call ends in
\* one error that carries the request path, that status and the body text
\* as received.
C6_ErrorCarriesStatusAndBody ==
    \A i \in Calls :
        (Done(i) /\ resp[i] # 0 /\ ~IsSuccessStatus(resp[i])) =>
            /\ Len(out[i]) = 1
            /\ out[i][1].kind = "error"
            /\ {"pathname", "status", "text"} \subseteq out[i][1].error.parts
            /\ out[i][1].error.pathname = sent[i][1].url.pathname
            /\ out[i][1].error.status = resp[i]
            /\ out[i][1].error.text = read[i]

C6_Witness ==
    \E i \in Calls : Done(i) /\ resp[i] = 404 /\ IsJsonSyn(read[i].syn)

\* The outbound call of i was issued and failed without a response.
Rejected(i) == Done(i) /\ Len(sent[i]) >= 1 /\ resp[i] = 0

\* C7: when the outbound call cannot be completed at all the call ends in
\* an error that contains the attempted path.
C7_ConnectionErrorNamesPath ==
    \A i \in Calls :
        Rejected(i) =>
            /\ Len(out[i]) = 1
            /\ out[i][1].kind = "error"
            /\ "pathname" \in out[i][1].error.parts
            /\ out[i][1].error.pathname = sent[i][1].url.pathname

\* C8: whatever the outcome, a call never issues more than one outbound
\* HTTP request.
C8_SingleAttempt ==
    \A i \in Calls : Len(sent[i]) <= 1

C8_Witness ==
    \E i, j \in Calls :
        /\ Rejected(i) /\ Len(sent[i]) = 1
        /\ Done(j) /\ resp[j] = 200 /\ ~IsJsonSyn(read[j].syn) /\ Len(sent[j]) = 1

\* C9: the caller gets a success envelope exactly when the outbound request
\* completed with a success status and its body parsed as JSON; in every
\* other case the single outcome is a failure.
C9_NoFailureSwallowed ==
    \A i \in Calls :
        Done(i) =>
            /\ Len(out[i]) = 1
            /\ out[i][1].kind = "success" <=>
                   /\ Len(sent[i]) = 1
                   /\ IsSuccessStatus(resp[i])
                   /\ IsJsonSyn(read[i].syn)
            /\ out[i][1].kind # "success" => out[i][1].kind = "error"

C9_Witness ==
    \E i, j \in Calls :
        /\ Done(i) /\ resp[i] = 200 /\ ~IsJsonSyn(read[i].syn) /\ out[i][1].kind = "error"
        /\ Rejected(j) /\ out[j][1].kind = "error"

\* C10: for every successful call structuredContent is the remote payload,
\* the envelope has exactly one content item of type "text", and that text
\* parses back to a value equal to structuredContent.
C10_EnvelopeRoundTrip ==
    \A i \in Calls :
        (Done(i) /\ Len(out[i]) = 1 /\ out[i][1].kind = "success") =>
            LET r == out[i][1].result
            IN  /\ r.structuredContent = ParseSyn(read[i].syn)
                /\ Len(r.content) = 1
                /\ r.content[1].type = "text"
                /\ JSONParse(r.content[1].text).ok
                /\ JSONParse(r.content[1].text).value = r.structuredContent

----------------------------------------------------------------------------
(* Properties of the request built: C11 to C13, C16 *)

ValidExplain(i) ==
    /\ Dispatched(i)
    /\ call[i].name = "explain_event"
    /\ PassesValidator(call[i])

\* C11: for every eventId of length at least 1 the request goes to
\* <prefix>/events/<URL-encoded eventId>/explain: the encoded eventId is
\* exactly one path segment, and no eventId changes the other segments of
\* the path, the query or the host.
C11_EventIdIsOneSegment ==
    \A i \in Calls :
        ValidExplain(i) =>
            LET url == sent[i][1].url
                n == Len(Prefix)
            IN  /\ url.origin = apiBase.origin
                /\ url.search = <<>>
                /\ Len(url.pathname) = n + 3
                /\ SubSeq(url.pathname, 1, n) = Prefix
                /\ url.pathname[n + 1] = <<"events">>
                /\ url.pathname[n + 2] # <<>>
                /\ \A k \in 1..Len(url.pathname[n + 2]) :
                       url.pathname[n + 2][k] \notin {"/", "?", "#"}
                /\ url.pathname[n + 3] = <<"explain">>

DotId(rq) ==
    /\ rq.name = "explain_event"
    /\ Get(rq.arguments, "eventId").v \in {<<".">>, <<".", ".">>}

\* API_BASE with its trailing slash removed, or added when it has none.
OtherSlash(b) ==
    IF EndsWithSlash(b.path) THEN [b EXCEPT !.path = DropLast(@)]
                             ELSE [b EXCEPT !.path = @ \o <<"/">>]

ValidatedArguments(rq) == SafeParse(InputSchema(rq.name), rq.arguments).data

\* C13: the POST tools send a JSON body with content-type application/json,
\* the body being the validated arguments ({} for simulate_replay); the GET
\* tools send no body and no content-type header.
C13_BodyAndContentType ==
    \A i \in Calls :
        (Dispatched(i) /\ PassesValidator(call[i])) =>
            LET r == sent[i][1]
            IN  IF call[i].name \in {"list_events", "explain_event"}
                  THEN /\ r.method = "GET"
                       /\ ~r.hasBody
                       /\ r.body = NoText
                       /\ r.contentType = ""
                  ELSE /\ r.method = "POST"
                       /\ r.hasBody
                       /\ r.contentType = "application/json"
                       /\ JSONParse(r.body).ok
                       /\ JSONParse(r.body).value =
                              IF call[i].name = "simulate_replay"
                                THEN JObj(<<>>)
                                ELSE ValidatedArguments(call[i])

C13_Witness ==
    /\ call[1].name = "simulate_replay"
    /\ Has(call[1].arguments, "speed")
    /\ Len(sent[1]) = 1
    /\ sent[1][1].hasBody
    /\ JSONParse(sent[1][1].body).value = JObj(<<>>)

\* The declared fields of alt_route and set_geofence_alert with the
\* documented defaults.
DocumentedDefaults(name) ==
    CASE name = "alt_route" ->
           << Fld("originLat", JNum("3.043")), Fld("originLon", JNum("101.449")),
              Fld("destLat", JNum("3.155")), Fld("destLon", JNum("101.712")) >>
      [] name = "set_geofence_alert" ->
           << Fld("lat", JNum("3.043")), Fld("lon", JNum("101.449")),
              Fld("radiusKm", JNum("1")) >>

\* C16: for alt_route and set_geofence_alert the body sent holds all the
\* declared fields and no other: a field the caller supplied is sent
\* unchanged, a field the caller left out is sent with its documented
\* default.
C16_DefaultsFilled ==
    \A i \in Calls :
        (/\ Dispatched(i)
         /\ call[i].name \in {"alt_route", "set_geofence_alert"}
         /\ PassesValidator(call[i])) =>
            LET dd == DocumentedDefaults(call[i].name)
                p == JSONParse(sent[i][1].body)
            IN  /\ p.ok
                /\ p.value.k = "obj"
                /\ Len(p.value.f) = Len(dd)
                /\ \A k \in 1..Len(dd) :
                       /\ Has(p.value, dd[k].name)
                       /\ Get(p.value, dd[k].name) =
                              IF Has(call[i].arguments, dd[k].name)
                                THEN Get(call[i].arguments, dd[k].name)
                                ELSE Get(JObj(dd), dd[k].name)

C16_Witness ==
    /\ call[1].name = "alt_route"
    /\ FieldNames(call[1].arguments.f) = {"originLon", "destLat"}
    /\ Len(sent[1]) = 1
    /\ JSONParse(sent[1][1].body).value =
           JObj(<< Fld("originLat", JNum("3.043")), Fld("originLon", JNum("101.5")),
                   Fld("destLat", JNum("0")), Fld("destLon", JNum("101.712")) >>)

----------------------------------------------------------------------------
(* Properties of the process: C14, C15, C17 *)

\* C14: with API_BASE absent or empty the process has exited before it
\* registered a tool or connected: it serves no request and makes no
\* outbound HTTP call.
C14_NoApiBaseNoService ==
    (~apiBase.set \/ (apiBase.origin = "" /\ apiBase.path = <<>>)) =>
        /\ proc = "exited"
        /\ registry = <<>>
        /\ listed = <<>>
        /\ \A i \in Calls : pc[i] = "idle" /\ sent[i] = <<>> /\ out[i] = <<>>

C14_Witness ==
    /\ apiBase.set
    /\ apiBase.origin = ""
    /\ proc = "exited"

\* The names of a listing, each counted as often as it is listed.
ListsSixOnce(names) ==
    /\ Len(names) = 6
    /\ { names[k] : k \in 1..Len(names) } = SixTools

\* C15: the registry is fixed when the process starts and never changes,
\* and a capability listing returns exactly the six tool names, each once,
\* before and after any sequence of tool calls.
C15_ListingIsSixTools ==
    /\ proc = "ready" => ListsSixOnce(registry)
    /\ listed # <<>> => ListsSixOnce(listed)

C15_Witness ==
    /\ ListsSixOnce(listed)
    /\ \E i, j \in Calls :
           /\ Done(i) /\ call[i].name = "delete_event"
           /\ Done(j) /\ Len(sent[j]) = 1

\* C17: the bridge has no timeout and no cancellation: a pending call is
\* ended only by an answer of the remote service or a failure of the
\* connection, so it stays pending for as long as neither happens; and
\* when the remote service always eventually answers or the connection
\* fails, every accepted call eventually produces its one outcome.
C17_PendingUntilAnswered ==
    /\ \A i \in Calls : InFlight(i) ~> (Done(i) /\ Len(out[i]) = 1)
    /\ [][\A i \in Calls :
              (InFlight(i) /\ (pc'[i] # pc[i] \/ out'[i] # out[i])) => RemoteAnswers(i)]_vars

C17_Witness ==
    \E i, j \in Calls :
        /\ InFlight(i) /\ out[i] = <<>>
        /\ Done(j) /\ Len(sent[j]) = 1 /\ Len(out[j]) = 1

----------------------------------------------------------------------------
(* Properties of the polyline decoder: C18 to C20 *)

Returned == ppc = "returned"

\* A character ends a chunk when its code less 63 has no continuation bit.
EndsChunk(c) == c - 63 < 32

Chunks(str) == Cardinality({ k \in 1..Len(str) : EndsChunk(str[k]) })

\* Complete chunks only, and an even number of them.
WellFormed(str) ==
    /\ \A k \in 1..Len(str) : str[k] \in 63..126
    /\ str # <<>> => EndsChunk(str[Len(str)])
    /\ (Chunks(str) % 2) = 0

\* C18: the decoder returns the empty sequence for the empty string, and
\* for a well-formed string (an even number of complete chunks) as many
\* coordinate pairs as the string encodes, in the order of the encoding.
C18_OnePairPerTwoChunks ==
    Returned =>
        /\ value = <<>> => coordinates = <<>>
        /\ WellFormed(value) =>
               /\ Len(coordinates) = (Chunks(value) \div 2)
               /\ Len(coordinates) = Len(points)

C18_Witness ==
    /\ Returned
    /\ Len(points) = 2
    /\ Chunks(value) = 4
    /\ Len(value) > 4
    /\ Len(coordinates) = 2

\* The pair (lat, lon) of 1e-5 degree units as the decoder returns it.
Pair(p) == << Times1e5(p[1]), Times1e5(p[2]) >>

\* C19: decoding the standard encoding of a sequence of integer coordinate
\* pairs returns the same pairs, each the running sum of the differences,
\* scaled by 1e-5.
C19_RoundTrip ==
    Returned => coordinates = [k \in 1..Len(points) |-> Pair(points[k])]

C19_Witness ==
    /\ Returned
    /\ points = << <<9000000, 18000000>>, <<-9000000, -18000000>> >>
    /\ coordinates = << Pair(<<9000000, 18000000>>), Pair(<<-9000000, -18000000>>) >>

\* The reference string _p~iF~ps|U_ulLnnqC_mqNvxq`@ as char codes.
ReferencePolyline ==
    << 95, 112, 126, 105, 70, 126, 112, 115, 124, 85, 95, 117, 108, 76, 110,
       110, 113, 67, 95, 109, 113, 78, 118, 120, 113, 96, 64 >>

\* C20: the reference string decodes to exactly three points, in units of
\* 1e-5 degree (3850000, -12020000), (4070000, -12095000) and
\* (4325200, -12645300).
C20_ReferenceDecodes ==
    (Returned /\ value = ReferencePolyline) =>
        coordinates = << Pair(<<3850000, -12020000>>),
                         Pair(<<4070000, -12095000>>),
                         Pair(<<4325200, -12645300>>) >>

C20_Witness ==
    /\ Returned
    /\ value = ReferencePolyline
    /\ Len(coordinates) = 3
    /\ coordinates[3] = Pair(<<4325200, -12645300>>)

----------------------------------------------------------------------------
(* Properties of the dashboard's API client and of the proxy routes: C21, C22 *)

FromDashboard == web.wpc # "idle" /\ web.from = "dashboard"

LocalProxyPath(op, eventId) == <<"/", "api", "/">> \o OperationPath(op, eventId)

PublicBaseGiven ==
    /\ web.publicBase.set
    /\ web.publicBase.origin # ""

Responded == web.wpc = "responded"

\* The backend answered with a status that is not a success.
AnsweredNotOk == web.status # 0 /\ ~(200 <= web.status /\ web.status <= 299)

\* The backend call succeeded: a success status and a body that is JSON.
BackendSucceeded ==
    /\ 200 <= web.status /\ web.status <= 299
    /\ IsJsonSyn(web.text.syn)

BaseNotConfigured ==
    /\ ~web.serverBase.set
    /\ ~(ReadsBody(web.op) /\ ~web.wellFormed)

----------------------------------------------------------------------------
(* Properties of the message shown for a failed operation: C23 *)

Shown == fn.at = "shown"

IsApiError == fn.error.class = "ApiError"

DetailsMessage == fn.error.details.k = "obj" /\ Has(fn.error.details, "message")

DetailsString == fn.error.details.k = "str"

\* C23 as stated: the message is details.message when details is an object
\* with a message; else details when it is a string; else
\* "<status> · <statusText>" for an API error; else the error's own
\* message; else "Unexpected error".
C23_MessageOrder ==
    Shown =>
        fn.ret =
            IF IsApiError /\ DetailsMessage
              THEN Text(StringOf(Get(fn.error.details, "message")))
            ELSE IF IsApiError /\ DetailsString
              THEN Text(fn.error.details.v)
            ELSE IF IsApiError
              THEN StatusAndText(fn.response.status, fn.response.statusText)
            ELSE IF fn.error.class = "Error"
              THEN Text(fn.error.message)
            ELSE Text(<<"Unexpected error">>)

\* C23, amended: the same order, where the third form is
\* "<status> · <message>" with the message of the API error, which is the
\* statusText of the response, or "Request failed" when the statusText is
\* empty.
C23_MessageOrderWithDefault ==
    Shown =>
        fn.ret =
            IF IsApiError /\ DetailsMessage
              THEN Text(StringOf(Get(fn.error.details, "message")))
            ELSE IF IsApiError /\ DetailsString
              THEN Text(fn.error.details.v)
            ELSE IF IsApiError
              THEN StatusAndText(fn.response.status,
                                 IF fn.response.statusText = <<>>
                                   THEN <<"Request failed">>
                                   ELSE fn.response.statusText)
            ELSE IF fn.error.class = "Error"
              THEN Text(fn.error.message)
            ELSE Text(<<"Unexpected error">>)

C23_Witness ==
    /\ Shown
    /\ IsApiError
    /\ fn.response.statusText = <<>>
    /\ fn.error.details.k = "obj"
    /\ ~Has(fn.error.details, "message")
    /\ fn.ret = StatusAndText(404, <<"Request failed">>)

----------------------------------------------------------------------------
(* Properties of the polyline decoder on any string: C24, C30 *)

\* The chunks read from a string: those a character ends, and the one the
\* end of the string cuts short.
ChunksRead(str) ==
    Chunks(str) + (IF str # <<>> /\ ~EndsChunk(str[Len(str)]) THEN 1 ELSE 0)

LastLongitude == coordinates[Len(coordinates)][2].units

PreviousLongitude ==
    IF Len(coordinates) > 1 THEN coordinates[Len(coordinates) - 1][2].units ELSE 0

\* C24: decodeGooglePolyline returns on every string, malformed ones
\* included: a pass of the loop reads two chunks, each taking at least one
\* character and none reading on past the end of the string, so that at
\* most ceil(chunks / 2) points are returned; and when the string ends after
\* a latitude chunk the longitude of the last point is that of the point
\* before it (0 when there is none).
C24_ReturnsOnAnyString ==
    /\ <>Returned
    /\ [][DecodeStep => (index' >= index + 2 /\ index' <= Len(value) + 1)]_vars
    /\ [](Returned =>
            /\ Len(coordinates) <= ((ChunksRead(value) + 1) \div 2)
            /\ (ChunksRead(value) % 2) = 1 => LastLongitude = PreviousLongitude)

C24_Witness ==
    /\ Returned
    /\ value # <<>>
    /\ ~EndsChunk(value[Len(value)])
    /\ ChunksRead(value) = 3
    /\ index = Len(value) + 1
    /\ Len(coordinates) = 2
    /\ LastLongitude = -1


\* The characters of the chunk that starts at index start (counted from 0):
\* up to the first character without continuation bit, or to the end of the
\* string.
RECURSIVE ChunkLength(_, _)
ChunkLength(str, start) ==
    IF start >= Len(str) THEN 0
    ELSE IF EndsChunk(str[start + 1]) THEN 1
    ELSE 1 + ChunkLength(str, start + 1)

\* The low five bits of the character at index i, less 63.
FiveBits(str, i) == (str[i + 1] - 63) % 32

\* Half of the number the n five-bit groups from index start on spell, the
\* lowest group first, computed with integers (no width).
RECURSIVE HalfFrom(_, _, _, _)
HalfFrom(str, start, n, j) ==
    IF j >= n THEN 0
    ELSE (IF j = 0 THEN FiveBits(str, start) \div 2
                   ELSE FiveBits(str, start + j) * (2^((5 * j) - 1)))
           + HalfFrom(str, start, n, j + 1)

\* The zig-zag decoding of a chunk of n characters: the lowest bit is the
\* sign, the rest the magnitude.
ZigZag(str, start, n) ==
    IF n = 0 THEN 0
    ELSE IF (FiveBits(str, start) % 2) = 1 THEN -HalfFrom(str, start, n, 0) - 1
    ELSE HalfFrom(str, start, n, 0)

\* C30: for every chunk of at most 6 characters the value decodeChunk
\* returns, which a pass of the loop adds to the latitude or the longitude,
\* is the zig-zag decoding of the chunk computed with integers without
\* width; a chunk whose value differs has 7 or more characters.
C30_ExactUpToSixCharacters ==
    [][DecodeStep =>
         LET n1 == ChunkLength(value, index)
             n2 == ChunkLength(value, index + n1)
         IN  /\ n1 <= 6 => lat' - lat = ZigZag(value, index, n1)
             /\ n2 <= 6 => lon' - lon = ZigZag(value, index + n1, n2)]_vars

\* A chunk of six characters with all 30 bits set, decoded as the integers
\* decode it, then one of seven characters whose value is not what the
\* integers give.
C30_Witness ==
    /\ Returned
    /\ value = <<126, 126, 126, 126, 126, 94, 95, 95, 95, 95, 95, 95, 65>>
    /\ Len(coordinates) = 1
    /\ lat = ZigZag(value, 0, 6)
    /\ lat = -536870912
    /\ ZigZag(value, 6, 7) = 1073741824
    /\ lon = -1073741824

----------------------------------------------------------------------------
(* Properties of the dashboard page: C25 to C27, C29 *)

EffectHasRun == page.on /\ ~page.effectDue

\* C25: after a successful ingest, once a list fetched after it has arrived
\* and holds the new eventId (and the effect has run for it, and nothing
\* else was selected by hand), selectedEventId is the new eventId.
C25_CreatedEventSelected ==
    ( /\ EffectHasRun
      /\ page.created # 0
      /\ page.refetched
      /\ Contains(page.events, page.created) )
        => page.selectedEventId = page.created

\* C26: once the selection effect has run for the current list and
\* selection, selectedEventId is null exactly when the list is empty and
\* otherwise the id of an event in the list; and an effect run that finds
\* no selection, or one that is not in the list, selects the first event.
C26_SelectionFollowsList ==
    /\ [](EffectHasRun =>
            /\ page.selectedEventId = 0 <=> page.events = <<>>
            /\ page.events # <<>> => Contains(page.events, page.selectedEventId))
    /\ [][(SelectionEffect /\ page.events # <<>>
             /\ ~Contains(page.events, page.selectedEventId))
            => page'.selectedEventId = page.events[1]]_vars

\* An event created by the page was selected, left the list, and the effect
\* fell back on the first event of the list.
C26_Witness ==
    /\ EffectHasRun
    /\ page.nextId = 3
    /\ page.events = <<1>>
    /\ page.stored = <<1>>
    /\ page.selectedEventId = 1
    /\ page.created = 2


RequestActive == page.coordinateRequest # ""

\* C27: at most one coordinate request is active; a map click while a
\* request is active calls the onSelect of that request, the one made last,
\* once with the clicked coordinates, which sets the fields of that request
\* and of no other, and then the request is null; a map click while no
\* request is active changes no field; pressing the pick button of the
\* active request, or Cancel, makes the request null and calls no onSelect.
C27_OneShotPicking ==
    /\ [](page.coordinateRequest \in RequestIds \cup {""})
    /\ [][\A coords \in ClickedCoords :
            MapClick(coords) =>
              IF RequestActive
                THEN /\ page'.delivered = page.delivered + 1
                     /\ page'.deliveredTo = page.coordinateRequest
                     /\ page'.deliveredCoords = coords
                     /\ page'.forms =
                          [page.forms EXCEPT ![page.coordinateRequest] =
                              Coords(roundCoord(coords.lat), roundCoord(coords.lon))]
                     /\ page'.coordinateRequest = ""
                ELSE /\ page'.forms = page.forms
                     /\ page'.delivered = page.delivered
                     /\ page'.coordinateRequest = ""]_vars
    /\ [][(CancelPressed \/ (RequestActive /\ PickPressed(page.coordinateRequest)))
            => /\ page'.coordinateRequest = ""
               /\ page'.forms = page.forms
               /\ page'.delivered = page.delivered]_vars

\* The report form asked, the destination button took the request over and
\* got the first click; the report form asked again and got the second; the
\* third click found no request.
C27_Witness ==
    /\ page.clicks = 3
    /\ page.delivered = 2
    /\ page.deliveredTo = "ingest-location"
    /\ page.forms["route-destination"] = Coords(30430, 1014500)
    /\ page.forms["ingest-location"] = Coords(-338690, -1512090)
    /\ page.forms["route-origin"] = FormDefaults["route-origin"]
    /\ ~RequestActive

----------------------------------------------------------------------------
(* Properties of the severity filters and the badge: C28 *)

\* The label a filter stands for.
FilterLabel(filter) ==
    CASE filter = "critical" -> "Critical"
      [] filter = "high"     -> "High"
      [] filter = "elevated" -> "Elevated"
      [] filter = "low"      -> "Low"

MatchingFilters(severity) ==
    { f \in SeverityFilters : checkSeverityMatch(OrNull(severity), f) }

\* C28: every event matches exactly one of the filters critical, high,
\* elevated and low, and it matches a filter exactly when getSeverityMeta
\* gives it the label of that filter, whatever its severity, a missing one
\* included.
C28_FiltersAgreeWithBadge ==
    (fn.name = "severity" /\ fn.filtered /\ fn.badged) =>
        /\ Cardinality(MatchingFilters(fn.severity)) = 1
        /\ fn.filter # "all" => (fn.shown <=> fn.label = FilterLabel(fn.filter))


\* The operations settled, the latest first.
RECURSIVE Reverse(_)
Reverse(seq) == IF seq = <<>> THEN <<>> ELSE Append(Reverse(Tail(seq)), Head(seq))

\* C29: the log holds one entry for each of the operations settled last, up
\* to 8 of them, the newest first, each with the status success when its
\* operation succeeded and error when it failed; and the entry of a ninth
\* operation pushes the oldest entry out.
C29_TimelineOfSettledOperations ==
    /\ [](page.on =>
            LET latest == Reverse(page.settled)
            IN  /\ Len(page.activityLog) <= 8
                /\ Len(page.activityLog) = (IF Len(latest) < 8 THEN Len(latest) ELSE 8)
                /\ \A k \in 1..Len(page.activityLog) :
                     /\ page.activityLog[k].mutation = latest[k].mutation
                     /\ page.activityLog[k].status = latest[k].status
                     /\ k > 1 => page.activityLog[k].timestamp
                                   < page.activityLog[k - 1].timestamp)
    /\ [][\A m \in Mutations :
            ((OnSuccess(m) \/ OnError(m)) /\ Len(page.activityLog) = 8)
              => \A k \in 2..8 : page'.activityLog[k] = page.activityLog[k - 1]]_vars

\* Nine operations settled before, then a route request failed and a
\* geofence alert succeeded.
C29_Witness ==
    /\ page.on
    /\ Len(page.settled) = 11
    /\ Len(page.activityLog) = 8
    /\ page.activityLog[1] = ActivityLogEntry("geofence", "success", 11)
    /\ page.activityLog[2] = ActivityLogEntry("altRoute", "error", 10)
    /\ page.activityLog[8].timestamp = 4

=============================================================================
